---- MODULE Spec2Model ----
(***************************************************************************)
(* rkyv-js codec engine: the byte writer and reader, the layout            *)
(* calculation, the archive/resolve protocol of every intrinsic codec,     *)
(* the B-tree and Swiss-table collections and the lazy access views.       *)
(*                                                                         *)
(* Representation.  A codec is a record [k, a, n, size, align]: its kind,  *)
(* the sequence of the codecs it is built from, a number (array length,    *)
(* B-tree branching factor E), and its size and alignment.  Values: numbers are integers; a string is the     *)
(* sequence of its code points; a vec/array/tuple/struct value is the      *)
(* sequence of its elements/fields in declaration order; T | null of       *)
(* option and weak is <<>> for null and <<v>> for a value; an enum value   *)
(* {tag, value} is <<index of tag, value>>; a Map is the sequence of its   *)
(* <<key, value>> entries in iteration order.  A call that may throw       *)
(* returns [ok, v]; the writer carries a thrown flag.                      *)
(***************************************************************************)
EXTENDS Integers, Sequences, FiniteSets, TLC

\* ------------------------------------------------------------------ bounds
InitialCapacity == 16
MaxReads == 3
MaxViews == 3
MaxIndex == 3
MaxLen == 70
MaxEntries == 7
MaxKeys == 3
MaxCalls == 3
TestEntries == 20

\* --------------------------------------------------------------- helpers
Max2(x, y) == IF x >= y THEN x ELSE y

RECURSIVE Zeros(_)
Zeros(n) == IF n <= 0 THEN <<>> ELSE <<0>> \o Zeros(n - 1)

\* src/src/codec.ts alignOffset
alignOffset(offset, al) ==
  LET remainder == offset % al
  IN IF remainder = 0 THEN offset ELSE offset + (al - remainder)

\* ------------------------------------------------------------- RkyvWriter
\* The constructor: a zeroed buffer of the initial capacity, position 0.
\* slots and ptrs are the history of the object: the positions
\* reserveRelPtr32 returned, and the <<fromPos, toPos, reserved>> of every
\* writeRelPtr32At, reserved telling whether fromPos was a returned slot.
NewWriter(cap) ==
  [buffer |-> SubSeq([i \in 1..cap |-> 0], 1, cap), position |-> 0, capacity |-> cap,
   thrown |-> FALSE, slots |-> {}, ptrs |-> {}]

RECURSIVE doubleUntil(_, _)
doubleUntil(cap, required) ==
  IF cap < required THEN doubleUntil(cap * 2, required) ELSE cap

\* An ensureCapacity that grows to exactly the size required.
ensureCapacityExact(w, additionalBytes) ==
  IF w.position + additionalBytes > w.capacity
  THEN [w EXCEPT !.capacity = w.position + additionalBytes,
                 !.buffer = w.buffer \o [i \in 1..(w.position + additionalBytes - w.capacity)
                                           |-> 0]]
  ELSE w

\* ensureCapacity: double the capacity until it fits, and transfer() the
\* bytes into the larger (zero-extended) buffer.
ensureCapacity(w, additionalBytes) ==
  LET grow(newCapacity) ==
        [w EXCEPT !.capacity = newCapacity,
                  !.buffer = w.buffer \o [i \in 1..(newCapacity - w.capacity) |-> 0]]
  IN IF w.position + additionalBytes > w.capacity
     THEN grow(doubleUntil(w.capacity, w.position + additionalBytes))
     ELSE w

\* Little-endian bytes of a (two's complement) integer of n bytes.
RECURSIVE leBytes(_, _)
leBytes(value, n) ==
  IF n = 0 THEN <<>> ELSE <<value % 256>> \o leBytes(value \div 256, n - 1)

\* DataView.setInt32 / setUint32 / ... at a position, without moving it.
setBytes(w, at, bs) ==
  IF at < 0 \/ at + Len(bs) > w.capacity
  THEN [w EXCEPT !.thrown = TRUE]
  ELSE [w EXCEPT !.buffer = SubSeq(w.buffer, 1, at) \o bs
                            \o SubSeq(w.buffer, at + Len(bs) + 1, w.capacity)]

\* writeBytes(bytes): ensureCapacity, then the stores at the cursor, which
\* moves past them.
writeBytes(w, bs) ==
  LET store(w1) ==
        [setBytes(w1, w1.position, bs) EXCEPT !.position = w1.position + Len(bs)]
  IN IF w.thrown THEN w ELSE store(ensureCapacity(w, Len(bs)))

\* align(alignment): zero padding up to the next multiple.
align(w, alignment) ==
  LET remainder == w.position % alignment
  IN IF w.thrown \/ remainder = 0 THEN w
     ELSE writeBytes(w, Zeros(alignment - remainder))

\* padTo(targetPosition): zero padding, nothing when already past it.
padTo(w, targetPosition) ==
  IF w.thrown \/ targetPosition <= w.position THEN w
  ELSE writeBytes(w, Zeros(targetPosition - w.position))

writeU8(w, value) == writeBytes(w, <<value % 256>>)
\* writeU16 / writeU32 / writeI32 / writeU64: align, ensureCapacity, store.
writeAligned(w, value, n) ==
  IF w.thrown THEN w ELSE writeBytes(align(w, n), leBytes(value, n))

writeU16(w, value) == writeAligned(w, value, 2)
writeU32(w, value) == writeAligned(w, value, 4)
writeI32(w, value) == writeAligned(w, value, 4)
\* A writeRelPtr32At that stores the delta as 8 bytes.
writeRelPtr64At(w, fromPos, toPos) ==
  IF w.thrown THEN w
  ELSE [setBytes(w, fromPos, leBytes(toPos - fromPos, 8))
          EXCEPT !.ptrs = w.ptrs \cup {<<fromPos, toPos, fromPos \in w.slots>>}]

\* A writeRelPtr32At that stores the delta at fromPos and leaves the cursor
\* behind the slot.
writeRelPtr32Seek(w, fromPos, toPos) ==
  IF w.thrown THEN w
  ELSE [setBytes(w, fromPos, leBytes(toPos - fromPos, 4))
          EXCEPT !.ptrs = w.ptrs \cup {<<fromPos, toPos, fromPos \in w.slots>>},
                 !.position = fromPos + 4]

\* A patch that stores nothing: the slot keeps the bytes it held.
writeRelPtr32AtSkipped(w, fromPos, toPos) == w

\* writeRelPtr32At(fromPos, toPos): the delta toPos - fromPos stored at
\* fromPos, the cursor untouched.
writeRelPtr32At(w, fromPos, toPos) ==
  IF w.thrown THEN w
  ELSE [setBytes(w, fromPos, leBytes(toPos - fromPos, 4))
          EXCEPT !.ptrs = w.ptrs \cup {<<fromPos, toPos, fromPos \in w.slots>>}]

\* reserveRelPtr32(): align to 4, skip 4 bytes; the slot is the position
\* after the alignment.
reserveRelPtr32(w) ==
  LET skip(w1) == [w1 EXCEPT !.position = w1.position + 4,
                             !.slots = w1.slots \cup {w1.position}]
  IN IF w.thrown THEN w ELSE skip(ensureCapacity(align(w, 4), 4))

\* finish(): the written prefix.
finish(w) == SubSeq(w.buffer, 1, w.position)

\* ------------------------------------------------------------- RkyvReader
InRange(buf, offset, n) == offset >= 0 /\ offset + n <= Len(buf)

Ok(v) == [ok |-> TRUE, v |-> v]
Err == [ok |-> FALSE, v |-> <<>>]

\* getRootPosition(rootSize)
getRootPosition(buf, rootSize) == Len(buf) - rootSize

\* The unsigned value of n little-endian bytes at offset (offset in range).
RECURSIVE leValue(_, _, _)
leValue(buf, offset, n) ==
  IF n = 0 THEN 0 ELSE buf[offset + 1] + 256 * leValue(buf, offset + 1, n - 1)

MaxInt == 2147483647

readU8(buf, offset) ==
  IF InRange(buf, offset, 1) THEN Ok(buf[offset + 1]) ELSE Err
readU16(buf, offset) ==
  IF InRange(buf, offset, 2) THEN Ok(leValue(buf, offset, 2)) ELSE Err
\* getUint32; a value of 2^31 or more is reported as the largest integer
\* of the model.
readU32(buf, offset) ==
  IF ~InRange(buf, offset, 4) THEN Err
  ELSE IF buf[offset + 4] >= 128 THEN Ok(MaxInt)
  ELSE Ok(leValue(buf, offset, 4))
\* getInt32: two's complement.
readI32(buf, offset) ==
  IF ~InRange(buf, offset, 4) THEN Err
  ELSE Ok(leValue(buf, offset, 3)
          + 16777216 * (IF buf[offset + 4] >= 128 THEN buf[offset + 4] - 256
                        ELSE buf[offset + 4]))
\* readRelPtr32(offset): offset + the stored delta.
readRelPtr32(buf, offset) ==
  LET rel == readI32(buf, offset)
  IN IF rel.ok THEN Ok(offset + rel.v) ELSE Err

RECURSIVE encodeText(_)
encodeText(text) ==
  LET \* ------------------------------------------------------------------ text
      \* TextEncoder.encode: UTF-8 of one code point.
      encodeCodePoint(cp) ==
        IF cp < 128 THEN <<cp>>
        ELSE IF cp < 2048 THEN <<192 + (cp \div 64), 128 + (cp % 64)>>
        ELSE IF cp < 65536
             THEN <<224 + (cp \div 4096), 128 + ((cp \div 64) % 64), 128 + (cp % 64)>>
        ELSE <<240 + (cp \div 262144), 128 + ((cp \div 4096) % 64),
               128 + ((cp \div 64) % 64), 128 + (cp % 64)>>
      half == Len(text) \div 2
  IN
  IF text = <<>> THEN <<>>
  ELSE IF Len(text) = 1 THEN encodeCodePoint(text[1])
  ELSE encodeText(SubSeq(text, 1, half)) \o encodeText(SubSeq(text, half + 1, Len(text)))

\* ----------------------------------------------------------------- codecs
\* A codec object: its kind, its inner codecs, its count (an array's length,
\* a B-tree's E) and the size and align it is constructed with.
Codec(k, a, n, sz, al) == [k |-> k, a |-> a, n |-> n, size |-> sz, align |-> al]

\* createPrimitiveCodec(size, align, read, write)
u8 == Codec("u8", <<>>, 0, 1, 1)
u16 == Codec("u16", <<>>, 0, 2, 2)
u32 == Codec("u32", <<>>, 0, 4, 4)
i32 == Codec("i32", <<>>, 0, 4, 4)
u64 == Codec("u64", <<>>, 0, 8, 8)
bool == Codec("bool", <<>>, 0, 1, 1)
unit == Codec("unit", <<>>, 0, 0, 1)
string == Codec("string", <<>>, 0, 8, 4)

\* taggedEnum: the discriminant width from the variant count.
discriminantSize(variantCount) ==
  IF variantCount <= 256 THEN 1 ELSE IF variantCount <= 65536 THEN 2 ELSE 4

RECURSIVE layoutFrom(_, _, _, _, _), maxVariantAlign(_, _, _), maxVariantSize(_, _, _),
          unionMax(_, _, _, _)

\* struct / tuple: the C-style layout loop.
layoutFrom(codecs, i, currentOffset, maxAlign, offsets) ==
  IF i > Len(codecs)
  THEN [offsets |-> offsets, size |-> alignOffset(currentOffset, maxAlign),
        align |-> maxAlign]
  ELSE layoutFrom(codecs, i + 1,
                  alignOffset(currentOffset, codecs[i].align) + codecs[i].size,
                  Max2(maxAlign, codecs[i].align),
                  Append(offsets, alignOffset(currentOffset, codecs[i].align)))

layout(codecs) == layoutFrom(codecs, 1, 0, 1, <<>>)

\* taggedEnum: unit variants (size 0) do not count.
maxVariantAlign(variants, i, acc) ==
  IF i > Len(variants) THEN acc
  ELSE maxVariantAlign(variants, i + 1,
         IF variants[i].size = 0 THEN acc ELSE Max2(acc, variants[i].align))

maxVariantSize(variants, i, acc) ==
  IF i > Len(variants) THEN acc
  ELSE maxVariantSize(variants, i + 1,
         IF variants[i].size = 0 THEN acc ELSE Max2(acc, variants[i].size))

enumAlign(variants) ==
  maxVariantAlign(variants, 1, discriminantSize(Len(variants)))

\* totalSize = discriminantSize + maxDiscriminantPadding + maxVariantSize
enumSize(variants) ==
  discriminantSize(Len(variants))
  + (alignOffset(discriminantSize(Len(variants)), enumAlign(variants))
     - discriminantSize(Len(variants)))
  + maxVariantSize(variants, 1, 0)

\* union: the maximum size and align over all variants.
unionMax(variants, i, maxSize, maxAlign) ==
  IF i > Len(variants)
  THEN [size |-> alignOffset(maxSize, maxAlign), align |-> maxAlign]
  ELSE unionMax(variants, i + 1, Max2(maxSize, variants[i].size),
                Max2(maxAlign, variants[i].align))

unionLayout(variants) == unionMax(variants, 1, 0, 1)

\* option: tagSize + paddingToInner + inner.size
optionPadding(inner) == alignOffset(1, inner.align) - 1
\* array: elementStride * length
elementStride(element) == alignOffset(element.size, element.align)
vec(element) == Codec("vec", <<element>>, 0, 8, 4)
option(inner) ==
  LET optionSize == 1 + optionPadding(inner) + inner.size
  IN
  Codec("option", <<inner>>, 0, optionSize, Max2(1, inner.align))
box(inner) == Codec("box", <<inner>>, 0, 4, 4)
weak(inner) == Codec("weak", <<inner>>, 0, 4, 4)
array(element, length) ==
  LET arraySize == elementStride(element) * length
  IN
  Codec("array", <<element>>, length, arraySize, element.align)
tuple(codecs) == Codec("tuple", codecs, 0, layout(codecs).size, layout(codecs).align)
struct(fields) == Codec("struct", fields, 0, layout(fields).size, layout(fields).align)
taggedEnum(variants) ==
  Codec("taggedEnum", variants, 0, enumSize(variants), enumAlign(variants))
union(variants) ==
  Codec("union", variants, 0, unionLayout(variants).size, unionLayout(variants).align)
btreeMap(keyCodec, valueCodec, E) == Codec("btreeMap", <<keyCodec, valueCodec>>, E, 8, 4)
hashMap(keyCodec, valueCodec) == Codec("hashMap", <<keyCodec, valueCodec>>, 0, 12, 4)
indexMap(keyCodec, valueCodec) == Codec("indexMap", <<keyCodec, valueCodec>>, 0, 16, 4)
indexSet(element) == Codec("indexSet", <<element>>, 0, 16, 4)

\* ------------------------------------------------- archive / resolve
AR(w, r) == [w |-> w, r |-> r]
RR(w, pos) == [w |-> w, pos |-> pos]

\* createPrimitiveCodec: _resolve is the writer's aligned write, which
\* returns the position of the value.
writePrimitive(k, w, value) ==
  LET writeU64 == writeAligned(w, value, 8)
      writeBool == writeU8(w, IF value # 0 THEN 1 ELSE 0)
  IN
  CASE k = "u8" -> writeU8(w, value)
    [] k = "bool" -> writeBool
    [] k = "u16" -> writeU16(w, value)
    [] k = "u32" -> writeU32(w, value)
    [] k = "i32" -> writeI32(w, value)
    [] k = "u64" -> writeU64
    [] k = "unit" -> w

\* string._archive: up to 8 bytes are inline and have no dependency.
stringArchive(w, value) ==
  LET bytes == encodeText(value)
  IN IF Len(bytes) <= 8 THEN AR(w, [pos |-> 0, len |-> Len(bytes)])
     ELSE AR(writeBytes(w, bytes), [pos |-> w.position, len |-> Len(bytes)])

\* encodedLen = (len & 0x3f) | 0x80 | ((len & ~0x3f) << 2), as the four
\* little-endian bytes writeU32 stores.  The operands are 32-bit integers:
\* the shift keeps the low 32 bits of (len - len % 64) * 4, whose byte 0 is
\* 0 and whose bytes 1..3 are len \div 64 modulo 2^24.
encodedLen(len) == <<(len % 64) + 128>> \o leBytes((len \div 64) % 16777216, 3)

\* string._resolve
stringResolve(w, value, resolver) ==
  LET w1 == align(w, 4)
      structPos == w1.position
      bytes == encodeText(value)
  IN IF Len(bytes) <= 8
     THEN RR(writeBytes(writeBytes(w1, bytes), [i \in 1..(8 - Len(bytes)) |-> 255]),
             structPos)
     ELSE RR(writeI32(writeBytes(w1, encodedLen(Len(bytes))), resolver.pos - structPos),
             structPos)

\* A call of a codec's method: codec[name](writer, value, resolver).
RECURSIVE codecMethod(_, _, _, _, _)

\* codec._archive(writer, value)
archive(c, w, value) == codecMethod("_archive", c, w, value, <<>>)

\* codec._resolve(writer, value, resolver)
resolve(c, w, value, resolver) == codecMethod("_resolve", c, w, value, resolver)

RECURSIVE archiveEach(_, _, _, _, _), resolveAligned(_, _, _, _, _),
          resolvePadded(_, _, _, _, _, _, _)

\* for (...) resolvers.push(codec._archive(writer, item))
archiveEach(codecs, w, values, i, resolvers) ==
  IF w.thrown \/ i > Len(codecs) THEN AR(w, resolvers)
  ELSE LET a == archive(codecs[i], w, values[i])
       IN archiveEach(codecs, a.w, values, i + 1, Append(resolvers, a.r))

\* for (...) { writer.align(codec.align); codec._resolve(...) }
resolveAligned(codecs, w, values, resolvers, i) ==
  IF w.thrown \/ i > Len(codecs) THEN w
  ELSE resolveAligned(codecs,
         resolve(codecs[i], align(w, codecs[i].align), values[i], resolvers[i]).w,
         values, resolvers, i + 1)

\* struct: for (...) { writer.padTo(pos + fieldOffset); codec._resolve(...) }
resolvePadded(codecs, w, values, resolvers, offsets, pos, i) ==
  IF w.thrown \/ i > Len(codecs) THEN w
  ELSE resolvePadded(codecs,
         resolve(codecs[i], padTo(w, pos + offsets[i]), values[i], resolvers[i]).w,
         values, resolvers, offsets, pos, i + 1)

\* n copies of x, as a tuple.
Repeat(x, n) == SubSeq([i \in 1..n |-> x], 1, n)

\* vec._archive
vecArchive(element, w, value) ==
  IF Len(value) = 0
  THEN AR(w, [pos |-> w.position, len |-> 0, elementResolvers |-> <<>>])
  ELSE LET es == Repeat(element, Len(value))
           a == archiveEach(es, w, value, 1, <<>>)
           w1 == align(a.w, element.align)
       IN AR(resolveAligned(es, w1, value, a.r, 1),
             [pos |-> w1.position, len |-> Len(value), elementResolvers |-> a.r])

\* option._archive / _resolve
optionArchive(inner, w, value) ==
  IF value = <<>> THEN AR(w, [pos |-> w.position, inner |-> <<>>])
  ELSE LET a == archive(inner, w, value[1])
       IN AR(a.w, [pos |-> w.position, inner |-> a.r])

optionResolve(inner, w, value, resolver) ==
  LET w1 == align(w, Max2(1, inner.align))
      pos == w1.position
  IN IF value = <<>>
     THEN RR(writeBytes(writeU8(w1, 0), Zeros(optionPadding(inner) + inner.size)),
             pos)
     ELSE RR(resolve(inner, writeBytes(writeU8(w1, 1), Zeros(optionPadding(inner))),
                     value[1], resolver.inner).w, pos)

\* box._archive: the inner value is written whole; it is taken to start
\* inner.size before the cursor.
boxArchive(inner, w, value) ==
  LET a == archive(inner, w, value)
      w1 == resolve(inner, align(a.w, inner.align), value, a.r).w
  IN AR(w1, [pos |-> w1.position - inner.size])

\* weak._archive
weakArchive(inner, w, value) ==
  IF value = <<>> THEN AR(w, [pos |-> 0, isNull |-> TRUE])
  ELSE LET a == archive(inner, w, value[1])
           w1 == resolve(inner, align(a.w, inner.align), value[1], a.r).w
       IN AR(w1, [pos |-> w1.position - inner.size, isNull |-> FALSE])

\* An array._archive that takes the first `length` items of a longer value.
arrayArchiveTruncating(element, length, w, value) ==
  IF Len(value) < length THEN AR([w EXCEPT !.thrown = TRUE], <<>>)
  ELSE LET a == archiveEach(Repeat(element, length), w, value, 1, <<>>)
       IN AR(a.w, [pos |-> a.w.position, resolvers |-> a.r])

\* array._archive: a length mismatch throws before anything is written.
arrayArchive(element, length, w, value) ==
  IF Len(value) # length THEN AR([w EXCEPT !.thrown = TRUE], <<>>)
  ELSE LET a == archiveEach(Repeat(element, length), w, value, 1, <<>>)
       IN AR(a.w, [pos |-> a.w.position, resolvers |-> a.r])

\* array._resolve: the elements at their alignment; no padding after the
\* last one.
arrayResolve(element, length, w, value, resolver) ==
  LET w1 == align(w, element.align)
  IN RR(resolveAligned(Repeat(element, length), w1, value, resolver.resolvers, 1),
        w1.position)

\* tuple._archive / _resolve
tupleArchive(codecs, w, value) ==
  LET a == archiveEach(codecs, w, value, 1, <<>>)
  IN AR(a.w, [pos |-> a.w.position, resolvers |-> a.r])

tupleResolve(codecs, w, value, resolver) ==
  LET w1 == align(w, layout(codecs).align)
      pos == w1.position
  IN RR(padTo(resolveAligned(codecs, w1, value, resolver.resolvers, 1),
              pos + layout(codecs).size), pos)

\* struct._archive / _resolve
structArchive(fields, w, value) ==
  LET a == archiveEach(fields, w, value, 1, <<>>)
  IN AR(a.w, [pos |-> a.w.position, fieldResolvers |-> a.r])

structResolve(fields, w, value, resolver) ==
  LET l == layout(fields)
      w1 == align(w, l.align)
      pos == w1.position
  IN RR(padTo(resolvePadded(fields, w1, value, resolver.fieldResolvers,
                            l.offsets, pos, 1),
              pos + l.size), pos)

\* taggedEnum._archive / _resolve; value = <<index, payload>>
enumArchive(variants, w, value) ==
  LET codec == variants[value[1] + 1]
  IN IF codec.size = 0 THEN AR(w, [pos |-> w.position, variantResolver |-> <<>>])
     ELSE LET a == archive(codec, w, value[2])
          IN AR(a.w, [pos |-> w.position, variantResolver |-> a.r])

variantPadding(dsize, codec) == alignOffset(dsize, codec.align) - dsize

enumResolve(variants, w, value, resolver) ==
  LET writeDiscriminant(w4, dsize, index) ==
        IF dsize = 1 THEN writeU8(w4, index)
        ELSE IF dsize = 2 THEN writeU16(w4, index) ELSE writeU32(w4, index)
  IN
  LET dsize == discriminantSize(Len(variants))
      codec == variants[value[1] + 1]
      w1 == align(w, enumAlign(variants))
      pos == w1.position
      w2 == writeDiscriminant(w1, dsize, value[1])
      w3 == IF codec.size = 0 THEN w2
            ELSE resolve(codec, writeBytes(w2, Zeros(variantPadding(dsize, codec))),
                         value[2], resolver.variantResolver).w
  IN RR(padTo(w3, pos + enumSize(variants)), pos)

\* ------------------------------------------------------------ B-tree map
NODE_KIND_LEAF == 0
NODE_KIND_INNER == 1

\* btreeMap: the node layout calculations.
nodeLayout(keyCodec, valueCodec, E) ==
  LET keyAlign == keyCodec.align
      valueAlign == valueCodec.align
      nodeAlign == Max2(1, Max2(keyAlign, valueAlign))
      keysOffset == alignOffset(1, keyAlign)
      keyStride == alignOffset(keyCodec.size, keyAlign)
      valuesOffset == alignOffset(keysOffset + keyStride * E, valueAlign)
      valueStride == alignOffset(valueCodec.size, valueAlign)
      nodeBaseSize == valuesOffset + valueStride * E
      leafLenOffset == alignOffset(nodeBaseSize, 4)
      lesserNodesOffset == alignOffset(nodeBaseSize, 4)
      greaterNodeOffset == lesserNodesOffset + 4 * E
  IN [nodeAlign |-> nodeAlign, keysOffset |-> keysOffset, keyStride |-> keyStride,
      valuesOffset |-> valuesOffset, valueStride |-> valueStride,
      leafLenOffset |-> leafLenOffset,
      leafNodeSize |-> alignOffset(leafLenOffset + 4, nodeAlign),
      lesserNodesOffset |-> lesserNodesOffset,
      greaterNodeOffset |-> greaterNodeOffset,
      innerNodeSize |-> alignOffset(greaterNodeOffset + 4, nodeAlign)]

RECURSIVE archiveEntries(_, _, _, _, _), resolveSlots(_, _, _, _, _, _, _)

archiveEntry(keyCodec, valueCodec, w, entry) ==
  LET \* The resolvers of an entry's key and value.
      entryResolvers(ka, va) == AR(va.w, [keyResolver |-> ka.r, valueResolver |-> va.r])
      \* { keyResolver: keyCodec._archive(writer, k),
      \*   valueResolver: valueCodec._archive(writer, v) }
      archiveValue(ka) == entryResolvers(ka, archive(valueCodec, ka.w, entry[2]))
  IN
  archiveValue(archive(keyCodec, w, entry[1]))

\* for (const [k, v] of entries) resolvers.push(...); a is the writer and
\* the resolvers so far.
archiveEntries(keyCodec, valueCodec, entries, i, a) ==
  LET \* resolvers.push(...)
      pushResolver(e) == AR(e.w, Append(a.r, e.r))
  IN
  IF a.w.thrown \/ i > Len(entries) THEN a
  ELSE archiveEntries(keyCodec, valueCodec, entries, i + 1,
                      pushResolver(archiveEntry(keyCodec, valueCodec, a.w, entries[i])))

\* for (let i = 0; i < E; i++) { writer.align(codec.align); ... }
resolveSlots(codec, w, entries, resolvers, part, E, i) ==
  LET \* Slot i of a node's key (part = 1) or value (part = 2) array: the entry's
      \* key or value, zeros when the node has no such entry.
      resolveSlot(w4) ==
        IF i < Len(entries)
        THEN resolve(codec, w4, entries[i + 1][part],
                     IF part = 1 THEN resolvers[i + 1].keyResolver
                     ELSE resolvers[i + 1].valueResolver).w
        ELSE writeBytes(w4, Zeros(codec.size))
  IN
  IF w.thrown \/ i >= E THEN w
  ELSE resolveSlots(codec,
                    resolveSlot(align(w, codec.align)),
                    entries, resolvers, part, E, i + 1)

\* The part common to writeLeaf and writeInner: dependencies, kind byte,
\* key array, value array.
writeNodeBase(L, keyCodec, valueCodec, E, w, kind, entries) ==
  LET \* A node from its position on: kind byte, key array, value array.  w is
      \* the writer aligned to the node.
      writeArrays(w4, resolvers) ==
        RR(resolveSlots(valueCodec,
                        padTo(resolveSlots(keyCodec,
                                           padTo(writeU8(w4, kind), w4.position + L.keysOffset),
                                           entries, resolvers, 1, E, 0),
                              w4.position + L.valuesOffset),
                        entries, resolvers, 2, E, 0),
           w4.position)
      \* writer.align(nodeAlign) after the dependencies a of the node's entries.
      alignNode(a) ==
        IF a.w.thrown THEN RR(a.w, 0) ELSE writeArrays(align(a.w, L.nodeAlign), a.r)
  IN
  alignNode(archiveEntries(keyCodec, valueCodec, entries, 1, AR(w, <<>>)))

\* lesser_nodes: the first childNodes.length - 1 children, 0 for the rest.
\* The delta is taken from the cursor before writeI32 aligns.
RECURSIVE writeLesser(_, _, _, _)
writeLesser(w, childNodes, E, i) ==
  IF w.thrown \/ i >= E THEN w
  ELSE writeLesser(writeI32(w, IF i < Len(childNodes) - 1
                               THEN childNodes[i + 1] - w.position ELSE 0),
                   childNodes, E, i + 1)

Min2(x, y) == IF x <= y THEN x ELSE y

\* nodes.push(node): lv is the writer and the nodes of a level so far.
pushNode(lv, node) == [w |-> node.w, nodes |-> Append(lv.nodes, node.pos)]

\* for (let i = 0; i < len; i += E) leaves.push(writeLeaf(entries.slice(i, i + E)))
RECURSIVE writeLeaves(_, _, _, _, _, _, _)
writeLeaves(L, keyCodec, valueCodec, E, entries, i, lv) ==
  LET \* writeLeaf (and the single-leaf branch of _archive, which is the same code)
      writeLeaf(w, leafEntries) ==
        LET \* A leaf after its arrays: the len field, padding to the leaf size.
            leafEnd(b, len) ==
              IF b.w.thrown THEN b
              ELSE
              RR(padTo(writeU32(padTo(b.w, b.pos + L.leafLenOffset), len), b.pos + L.leafNodeSize),
                 b.pos)
        IN
        leafEnd(writeNodeBase(L, keyCodec, valueCodec, E, w, NODE_KIND_LEAF, leafEntries),
                Len(leafEntries))
  IN
  IF lv.w.thrown \/ i >= Len(entries) THEN lv
  ELSE writeLeaves(L, keyCodec, valueCodec, E, entries, i + E,
                   pushNode(lv, writeLeaf(lv.w,
                                          SubSeq(entries, i + 1,
                                                 Min2(i + E, Len(entries))))))

\* The separator entries of the inner node over currentLevel[i .. i + E].
RECURSIVE keysForNode(_, _, _, _, _, _)
keysForNode(entries, nChildren, E, i, j, keys) ==
  LET \* separatorIdx = Math.min((i + j + 1) * E - 1, len - 1)
      separatorIdx(len) == Min2((i + j + 1) * E - 1, len - 1)
      \* if (separatorIdx >= 0 && separatorIdx < len) keysForNode.push(entries[separatorIdx])
      pushSeparator(idx) ==
        IF idx >= 0 /\ idx < Len(entries) THEN Append(keys, entries[idx + 1]) ELSE keys
  IN
  IF ~(j < nChildren - 1 /\ j < E) THEN keys
  ELSE keysForNode(entries, nChildren, E, i, j + 1,
                   pushSeparator(separatorIdx(Len(entries))))

\* One level: while (i < currentLevel.length) { ...; i += E + 1 }
RECURSIVE writeLevel(_, _, _, _, _, _, _, _)
writeLevel(L, keyCodec, valueCodec, E, entries, currentLevel, i, lv) ==
  LET \* writeInner
      writeInner(w, innerEntries, childNodes) ==
        LET \* greater_node: the last child.
            writeGreater(w4) ==
              writeI32(w4, IF Len(childNodes) > 0 THEN childNodes[Len(childNodes)] - w4.position
                          ELSE 0)
            \* An inner node after its arrays: the child pointers, padding to the inner
            \* node size.
            innerEnd(b) ==
              IF b.w.thrown THEN b
              ELSE
              RR(padTo(writeGreater(writeLesser(padTo(b.w, b.pos + L.lesserNodesOffset),
                                                childNodes, E, 0)),
                       b.pos + L.innerNodeSize),
                 b.pos)
        IN
        innerEnd(writeNodeBase(L, keyCodec, valueCodec, E, w, NODE_KIND_INNER, innerEntries))
  IN
  LET \* writeInner(keysForNode, childrenForNode)
      innerOver(w, childrenForNode) ==
        writeInner(w,
                   keysForNode(entries, Len(childrenForNode), E, i, 0, <<>>),
                   childrenForNode)
  IN
  IF lv.w.thrown \/ i >= Len(currentLevel) THEN lv
  ELSE writeLevel(L, keyCodec, valueCodec, E, entries, currentLevel, i + E + 1,
                  pushNode(lv, innerOver(lv.w,
                                         SubSeq(currentLevel, i + 1,
                                                Min2(i + E + 1, Len(currentLevel))))))

\* while (currentLevel.length > 1) currentLevel = nextLevel
RECURSIVE buildLevels(_, _, _, _, _, _)
buildLevels(L, keyCodec, valueCodec, E, entries, lv) ==
  IF lv.w.thrown \/ Len(lv.nodes) <= 1 THEN lv
  ELSE buildLevels(L, keyCodec, valueCodec, E, entries,
                   writeLevel(L, keyCodec, valueCodec, E, entries, lv.nodes, 0,
                              [w |-> lv.w, nodes |-> <<>>]))

\* btreeMap._archive; value is the sequence of the Map's entries.
btreeArchive(keyCodec, valueCodec, E, w, value) ==
  LET \* return { pos: root.pos, rootPos: root.pos, len }
      rootOf(lv, len) ==
        IF lv.w.thrown THEN AR(lv.w, <<>>)
        ELSE AR(lv.w, [pos |-> lv.nodes[1], rootPos |-> lv.nodes[1], len |-> len])
      \* btreeMap._archive of a Map that is not empty: the leaves, then the levels
      \* above them (none over a single leaf).
      archiveTree(L, entries) ==
        rootOf(buildLevels(L, keyCodec, valueCodec, E, entries,
                           writeLeaves(L, keyCodec, valueCodec, E, entries, 0,
                                       [w |-> w, nodes |-> <<>>])),
               Len(entries))
  IN
  IF Len(value) = 0 THEN AR(w, [pos |-> 0, rootPos |-> 0, len |-> 0])
  ELSE archiveTree(nodeLayout(keyCodec, valueCodec, E), value)

\* btreeMap._resolve
btreeResolve(w, resolver) ==
  LET w1 == align(w, 4)
      structPos == w1.position
      w2 == writeU32(reserveRelPtr32(w1), resolver.len)
  IN IF resolver.len > 0
     THEN RR(writeRelPtr32At(w2, structPos, resolver.rootPos), structPos)
     ELSE RR(writeRelPtr32At(w2, structPos, 0), structPos)

\* ------------------------------------------------------------ Swiss table
\* A 64-bit hash is the sequence of its 8 bytes, least significant first.
ZeroHash == <<0, 0, 0, 0, 0, 0, 0, 0>>
MAX_GROUP_WIDTH == 16

\* hashWord(hash, word) = ((rotl(hash, 5) ^ word) * SEED) & MASK64
hashWord(hash, word) ==
  LET \* const SEED = 0x517cc1b727220a95n
      SEED == <<149, 10, 34, 39, 183, 193, 124, 81>>
      \* x ^ y of two bytes, bit by bit.
      xorByte(x, y) ==
        LET bit(k) == (((x \div k) % 2) + ((y \div k) % 2)) % 2
        IN ((bit(1) + 2 * bit(2)) + (4 * bit(4) + 8 * bit(8)))
           + ((16 * bit(16) + 32 * bit(32)) + (64 * bit(64) + 128 * bit(128)))
      \* The sum of the byte products of weight 256^(k-1) in x * y, from the i-th.
      limbSum(x, y, k, i) ==
        LET term(j) == IF j >= i /\ j <= k /\ k + 1 - j <= 8 THEN x[j] * y[k + 1 - j] ELSE 0
        IN ((term(1) + term(2)) + (term(3) + term(4)))
           + ((term(5) + term(6)) + (term(7) + term(8)))
      \* (x * y) & MASK64: schoolbook multiplication, the low 8 bytes from byte k
      \* on, sum being the products of weight 256^(k-1) and the carry into them.
      mulFrom(x, y, k, sum) ==
        LET s1 == sum
            s2 == (s1 \div 256) + limbSum(x, y, k + 1, 1)
            s3 == (s2 \div 256) + limbSum(x, y, k + 2, 1)
            s4 == (s3 \div 256) + limbSum(x, y, k + 3, 1)
            s5 == (s4 \div 256) + limbSum(x, y, k + 4, 1)
            s6 == (s5 \div 256) + limbSum(x, y, k + 5, 1)
            s7 == (s6 \div 256) + limbSum(x, y, k + 6, 1)
            s8 == (s7 \div 256) + limbSum(x, y, k + 7, 1)
        IN SubSeq(<<s1 % 256, s2 % 256, s3 % 256, s4 % 256, s5 % 256, s6 % 256, s7 % 256,
                    s8 % 256>>, 1, 9 - k)
  IN
  LET \* rotateLeft64(value, 5)
      rotated(i) == ((hash[i] * 32) % 256) + (hash[IF i = 1 THEN 8 ELSE i - 1] \div 8)
      rotateLeft64 ==
        <<rotated(1), rotated(2), rotated(3), rotated(4), rotated(5), rotated(6),
          rotated(7), rotated(8)>>
      xor64(x, y) ==
        <<xorByte(x[1], y[1]), xorByte(x[2], y[2]), xorByte(x[3], y[3]),
          xorByte(x[4], y[4]), xorByte(x[5], y[5]), xorByte(x[6], y[6]),
          xorByte(x[7], y[7]), xorByte(x[8], y[8])>>
      mul64(x, y) == mulFrom(x, y, 1, x[1] * y[1])
  IN
  IF Len(hash) = 8 THEN mul64(xor64(rotateLeft64, word), SEED) ELSE hash

\* hash = hashWord(hash, word) for each of the words
RECURSIVE hashWords(_, _, _)
hashWords(words, i, hash) ==
  IF i > Len(words) \/ Len(hash) # 8 THEN hash
  ELSE hashWords(words, i + 1, hashWord(hash, words[i]))

\* hashString: the bytes, then the 0xff terminator.
hashString(s) ==
  LET \* fxHashBytes
      fxHashBytes(bytes) ==
        LET \* The little-endian word of n bytes at offset, zero-extended.
            wordAt(offset, n) == SubSeq(bytes, offset + 1, offset + n) \o Zeros(8 - n)
            \* fxHashBytes, the words it hashes in turn: the 8-byte words, then the 4-,
            \* 2- and 1-byte chunks.
            fxWords ==
              [i \in 1..(Len(bytes) \div 8) |-> wordAt((i - 1) * 8, 8)]
              \o (IF (Len(bytes) \div 4) % 2 = 1
                  THEN <<wordAt((Len(bytes) \div 8) * 8, 4)>> ELSE <<>>)
              \o (IF (Len(bytes) \div 2) % 2 = 1
                  THEN <<wordAt((Len(bytes) \div 4) * 4, 2)>> ELSE <<>>)
              \o (IF Len(bytes) % 2 = 1 THEN <<wordAt(Len(bytes) - 1, 1)>> ELSE <<>>)
        IN
        hashWords(fxWords, 1, ZeroHash)
  IN
  hashWord(fxHashBytes(encodeText(s)), <<255, 0, 0, 0, 0, 0, 0, 0>>)

\* h2(hash) = (hash >> 57) & 0x7F
h2(hash) == hash[8] \div 2

\* hash % BigInt(capacity)
RECURSIVE hashMod(_, _, _, _)
hashMod(hash, capacity, i, acc) ==
  IF i = 0 \/ acc >= capacity THEN acc
  ELSE hashMod(hash, capacity, i - 2,
               (acc * 65536 + hash[i] * 256 + hash[i - 1]) % capacity)

\* const hash = typeof k === 'string' ? hashString(writer, k) : 0n
keyHash(keyCodec, key) == IF keyCodec.k = "string" THEN hashString(key) ELSE ZeroHash

\* capacityFromLen: max(ceil(len * 8 / 7), len + 1), 0 when empty
capacityFromLen(len) ==
  IF len = 0 THEN 0 ELSE Max2((len * 8 + 6) \div 7, len + 1)

\* A probe that takes the hashed slot whether it is free or not.
probeSlotFirst(controlBytes, slot, probe, capacity) == slot

\* The codecs' linear probe: for (probe < capacity) { if (controlBytes[slot]
\* === 0xff) ...; slot = (slot + 1) % capacity }.  -1: no slot was free.
RECURSIVE probeSlot(_, _, _, _)
probeSlot(controlBytes, slot, probe, capacity) ==
  IF probe >= capacity THEN -1
  ELSE IF controlBytes[slot + 1] = 255 THEN slot
  ELSE probeSlot(controlBytes, (slot + 1) % capacity, probe + 1, capacity)

\* controlBytes[slot] = h2Hash, mirrored when slot < ctrlCount - capacity.
setControl(controlBytes, slot, h2Hash, capacity) ==
  IF slot < Len(controlBytes) - capacity
  THEN [controlBytes EXCEPT ![slot + 1] = h2Hash, ![capacity + slot + 1] = h2Hash]
  ELSE [controlBytes EXCEPT ![slot + 1] = h2Hash]

\* Entry layout: (K, V) with C-style alignment.
entryLayout(keyCodec, valueCodec) ==
  LET entryAlign == Max2(keyCodec.align, valueCodec.align)
      valueOffset == alignOffset(keyCodec.size, valueCodec.align)
  IN [entryAlign |-> entryAlign, valueOffset |-> valueOffset,
      entrySize |-> alignOffset(valueOffset + valueCodec.size, entryAlign)]

\* let slot = Number(hash % BigInt(capacity)), then the linear probe.
findSlot(controlBytes, hash, capacity) ==
  probeSlot(controlBytes, hashMod(hash, capacity, 8, 0), 0, capacity)

\* probeCap: the capacity rounded up to MAX_GROUP_WIDTH
probeCap(capacity) ==
  IF capacity = 0 THEN 0
  ELSE ((capacity + MAX_GROUP_WIDTH - 1) \div MAX_GROUP_WIDTH) * MAX_GROUP_WIDTH

\* controlCount
controlCount(probeCapacity) ==
  IF probeCapacity = 0 THEN 0 ELSE probeCapacity + MAX_GROUP_WIDTH - 1

\* The empty table of a capacity: control bytes 0xFF, no slot taken.
emptyControl(capacity) == Repeat(255, controlCount(probeCap(capacity)))

\* hashMap._archive, the first loop over the Map's entries.
RECURSIVE placeEntries(_, _, _, _, _, _)
placeEntries(keyCodec, valueCodec, value, i, capacity, st) ==
  LET \* hashMap._archive, the body of the probe's if: the control byte(s), the
      \* bucket, and the entry's dependencies archived as it is placed.
      \* slots[s + 1] is the (1-based) entry placed in slot s, 0 when it is empty.
      fillSlot(h2Hash, slot, e) ==
        [w |-> e.w,
         controlBytes |-> setControl(st.controlBytes, slot, h2Hash, capacity),
         slots |-> [st.slots EXCEPT ![slot + 1] = i],
         resolvers |-> Append(st.resolvers, e.r)]
      \* hashMap._archive, the probe of one entry; no free slot: nothing is pushed.
      putEntry(entry, h2Hash, slot) ==
        IF slot < 0 THEN [st EXCEPT !.resolvers = Append(@, <<>>)]
        ELSE fillSlot(h2Hash, slot,
                      archiveEntry(keyCodec, valueCodec, st.w, entry))
      \* const h2Hash = h2(hash); let slot = Number(hash % BigInt(capacity))
      placeHashed(entry, hash) ==
        IF Len(hash) # 8 THEN st
        ELSE putEntry(entry, h2(hash),
                      findSlot(st.controlBytes, hash, capacity))
      \* hashMap._archive, one turn of the first loop.
      placeEntry(entry) == placeHashed(entry, keyHash(keyCodec, entry[1]))
  IN
  IF st.w.thrown \/ i > Len(value) THEN st
  ELSE placeEntries(keyCodec, valueCodec, value, i + 1, capacity,
                    placeEntry(value[i]))

\* A bucket that holds an entry: key, padding, value.
fullBucket(EL, keyCodec, valueCodec, w, entry, resolver) ==
  resolve(valueCodec,
          padTo(resolve(keyCodec, w, entry[1], resolver.keyResolver).w,
                w.position + EL.valueOffset),
          entry[2], resolver.valueResolver).w

\* hashMap._archive, the second loop: the buckets from slot capacity - 1
\* down to slot 0.
RECURSIVE writeBuckets(_, _, _, _, _, _, _, _)
writeBuckets(EL, keyCodec, valueCodec, w, value, slots, resolvers, slot) ==
  LET \* hashMap._archive, one turn of the second loop: the bucket of a slot, an
      \* empty one zero-filled.
      writeBucket ==
        padTo(IF slots[slot + 1] # 0
              THEN fullBucket(EL, keyCodec, valueCodec, w, value[slots[slot + 1]],
                              resolvers[slots[slot + 1]])
              ELSE writeBytes(w, Zeros(EL.entrySize)),
              w.position + EL.entrySize)
  IN
  IF w.thrown \/ slot < 0 THEN w
  ELSE writeBuckets(EL, keyCodec, valueCodec,
                    writeBucket,
                    value, slots, resolvers, slot - 1)

\* hashMap._archive
hashMapArchive(keyCodec, valueCodec, w, value) ==
  LET \* hashMap._archive, the control bytes after the buckets; they are where
      \* the resolver points.
      writeControl(w4, controlBytes, len, capacity) ==
        AR(writeBytes(w4, controlBytes),
           [pos |-> w4.position, len |-> len, capacity |-> capacity,
            controlBytesPos |-> w4.position])
      \* hashMap._archive after the first loop: writer.align(entryAlign), the
      \* buckets, the control bytes.
      writeTable(EL, capacity, p) ==
        writeControl(writeBuckets(EL, keyCodec, valueCodec, align(p.w, EL.entryAlign), value,
                                  p.slots, p.resolvers, capacity - 1),
                     p.controlBytes, Len(value), capacity)
      \* return { pos: 0, len: 0, capacity: 0, controlBytesPos: 0 }: the resolver
      \* of an empty Map; a call that throws returns none.
      emptyTable == [pos |-> 0, len |-> 0, capacity |-> 0, controlBytesPos |-> 0]
      \* hashMap._archive after the first loop, which may have thrown.
      placed(EL, capacity, p) ==
        IF p.w.thrown THEN AR(p.w, emptyTable) ELSE writeTable(EL, capacity, p)
      \* hashMap._archive of a Map that is not empty.
      archiveTable(capacity) ==
        placed(entryLayout(keyCodec, valueCodec), capacity,
               placeEntries(keyCodec, valueCodec, value, 1, capacity,
                            [w |-> w, controlBytes |-> emptyControl(capacity),
                             slots |-> Repeat(0, capacity), resolvers |-> <<>>]))
  IN
  IF Len(value) = 0 THEN AR(w, emptyTable)
  ELSE archiveTable(capacityFromLen(Len(value)))

\* hashMap._resolve
hashMapResolve(w, resolver) ==
  LET \* hashMap._resolve: { ptr, len, cap } at the aligned cursor.
      hashMapStruct(w4) ==
        RR(writeRelPtr32At(writeU32(writeU32(reserveRelPtr32(w4), resolver.len),
                                    resolver.capacity),
                           w4.position,
                           IF resolver.len > 0 THEN resolver.controlBytesPos ELSE 0),
           w4.position)
  IN
  hashMapStruct(align(w, 4))

\* indexMap._archive, first pass: the table over the entry indices.
RECURSIVE placeIndices(_, _, _, _)
placeIndices(keyCodec, value, capacity, t) ==
  LET \* indexMap._archive, the body of the probe's if: the control byte(s) and
      \* the index of the entry.
      fillIndex(h2Hash, slot) ==
        IF slot < 0 THEN [t EXCEPT !.itemIndex = @ + 1]
        ELSE [itemIndex |-> t.itemIndex + 1,
              controlBytes |-> setControl(t.controlBytes, slot, h2Hash, capacity),
              bucketIndices |-> [t.bucketIndices EXCEPT ![slot + 1] = t.itemIndex]]
      \* const h2Hash = h2(hash); const initialSlot = Number(hash % BigInt(capacity))
      placeHashedIndex(hash) ==
        IF Len(hash) # 8 THEN t
        ELSE fillIndex(h2(hash), findSlot(t.controlBytes, hash, capacity))
      \* indexMap._archive, one turn of the first pass: the index of the entry is
      \* put in the first empty slot from hash % capacity on.
      placeIndex(key) == placeHashedIndex(keyHash(keyCodec, key))
  IN
  IF t.itemIndex >= Len(value) THEN t
  ELSE placeIndices(keyCodec, value, capacity,
                    placeIndex(value[t.itemIndex + 1][1]))

\* The table before the first pass.
emptyIndices(capacity) ==
  [itemIndex |-> 0, controlBytes |-> emptyControl(capacity),
   bucketIndices |-> Repeat(0, capacity)]

\* for (i = capacity - 1; i >= 0; i--) writer.writeU32(bucketIndices[i])
RECURSIVE writeIndices(_, _, _)
writeIndices(w, bucketIndices, i) ==
  IF w.thrown \/ i < 0 THEN w ELSE writeIndices(writeU32(w, bucketIndices[i + 1]), bucketIndices, i - 1)

\* indexMap._archive, steps 1 and 2: writer.align(4), the indices from the
\* last slot down, the control bytes.
writeIndexTable(w, t, capacity) ==
  LET \* indexMap._archive, step 2: the control bytes right after the indices.
      controlAfter(w4, controlBytes) ==
        [w |-> writeBytes(w4, controlBytes), controlBytesPos |-> w4.position]
  IN
  controlAfter(writeIndices(align(w, 4), t.bucketIndices, capacity - 1), t.controlBytes)

\* indexMap._archive, step 4: the entries array in iteration order.
RECURSIVE writeEntries(_, _, _, _, _, _, _)
writeEntries(EL, keyCodec, valueCodec, w, value, resolvers, i) ==
  LET \* indexMap._archive, step 4, one entry: key, padding, value, padding.  w
      \* is the writer aligned to the entry.
      entryAt(w4, entry, resolver) ==
        padTo(fullBucket(EL, keyCodec, valueCodec, w4, entry, resolver),
              w4.position + EL.entrySize)
  IN
  IF w.thrown \/ i > Len(value) THEN w
  ELSE writeEntries(EL, keyCodec, valueCodec,
                    entryAt(align(w, EL.entryAlign), value[i],
                            resolvers[i]),
                    value, resolvers, i + 1)

\* The resolver of an index map or set whose entries start at the cursor.
indexResolver(w, controlBytesPos, len, capacity) ==
  [pos |-> w.position, entriesPos |-> w.position, controlBytesPos |-> controlBytesPos,
   len |-> len, capacity |-> capacity]

\* return { pos: 0, entriesPos: 0, controlBytesPos: 0, len: 0, capacity: 0 }:
\* the resolver of an empty map; a call that throws returns none.
emptyIndexResolver ==
  [pos |-> 0, entriesPos |-> 0, controlBytesPos |-> 0, len |-> 0, capacity |-> 0]

\* indexMap._archive
indexMapArchive(keyCodec, valueCodec, w, value) ==
  LET \* indexMap._archive, step 4 from writer.align(entryAlign) on.
      entriesAt(EL, w4, resolvers, controlBytesPos, capacity) ==
        AR(writeEntries(EL, keyCodec, valueCodec, w4, value, resolvers, 1),
           indexResolver(w4, controlBytesPos, Len(value), capacity))
      \* indexMap._archive, step 4 after the dependencies a of step 3.
      alignEntries(EL, controlBytesPos, capacity, a) ==
        IF a.w.thrown THEN AR(a.w, emptyIndexResolver)
        ELSE entriesAt(EL, align(a.w, EL.entryAlign), a.r,
                       controlBytesPos, capacity)
      \* indexMap._archive, steps 3 and 4 after the table tb.
      archiveIndexed(EL, capacity, tb) ==
        IF tb.w.thrown THEN AR(tb.w, emptyIndexResolver)
        ELSE alignEntries(EL, tb.controlBytesPos, capacity,
                          archiveEntries(keyCodec, valueCodec, value, 1, AR(tb.w, <<>>)))
  IN
  IF Len(value) = 0 THEN AR(w, emptyIndexResolver)
  ELSE archiveIndexed(entryLayout(keyCodec, valueCodec),
         capacityFromLen(Len(value)),
         writeIndexTable(w, placeIndices(keyCodec, value, capacityFromLen(Len(value)),
                                         emptyIndices(capacityFromLen(Len(value)))),
                         capacityFromLen(Len(value))))

\* An entries pointer that leads to the control bytes instead of the
\* entries array.
entriesPointerToTable(w, structPos, resolver) ==
  RR(writeRelPtr32At(reserveRelPtr32(w), w.position, resolver.controlBytesPos), structPos)

\* indexMap._resolve of a map that is not empty: { ptr, len, cap }, then the
\* entries pointer.  w is the writer after the first pointer was patched.
entriesPointer(w, structPos, resolver) ==
  RR(writeRelPtr32At(reserveRelPtr32(w), w.position, resolver.entriesPos), structPos)

\* indexMap._resolve
indexMapResolve(w, resolver) ==
  LET \* indexMap._resolve at the aligned cursor; an empty map is four zero words.
      indexMapStruct(w4) ==
        IF resolver.len > 0
        THEN entriesPointer(
               writeRelPtr32At(writeU32(writeU32(reserveRelPtr32(w4), resolver.len),
                                        resolver.capacity),
                               w4.position, resolver.controlBytesPos),
               w4.position, resolver)
        ELSE RR(writeI32(writeU32(writeU32(writeI32(w4, 0), 0), 0), 0), w4.position)
  IN
  indexMapStruct(align(w, 4))

\* indexSet._archive: the table over the element indices, then the elements
\* in iteration order, each at its own alignment.
indexSetArchive(element, w, value) ==
  LET \* indexSet._archive, the elements from writer.align(element.align) on.
      elementsAt(w4, resolvers, controlBytesPos, capacity) ==
        AR(resolveAligned(Repeat(element, Len(value)), w4, value, resolvers, 1),
           indexResolver(w4, controlBytesPos, Len(value), capacity))
      \* indexSet._archive, the elements after their dependencies a.
      alignElements(controlBytesPos, capacity, a) ==
        IF a.w.thrown THEN AR(a.w, emptyIndexResolver)
        ELSE elementsAt(align(a.w, element.align), a.r, controlBytesPos, capacity)
      \* indexSet._archive, the dependencies and the elements after the table tb.
      archiveElements(capacity, tb) ==
        IF tb.w.thrown THEN AR(tb.w, emptyIndexResolver)
        ELSE alignElements(tb.controlBytesPos, capacity,
                           archiveEach(Repeat(element, Len(value)), tb.w, value, 1, <<>>))
  IN
  IF Len(value) = 0 THEN AR(w, emptyIndexResolver)
  ELSE archiveElements(capacityFromLen(Len(value)),
         writeIndexTable(w, placeIndices(element, [i \in 1..Len(value) |-> <<value[i]>>],
                                         capacityFromLen(Len(value)),
                                         emptyIndices(capacityFromLen(Len(value)))),
                         capacityFromLen(Len(value))))

\* union._archive / _resolve; value is <<type, value>>, type counted from 0.
unionArchive(variants, w, value) ==
  LET a == archive(variants[value[1] + 1], w, value[2])
  IN AR(a.w, [pos |-> w.position, type |-> value[1], inner |-> a.r])

unionResolve(variants, w, value, resolver) ==
  LET w1 == align(w, unionLayout(variants).align)
      pos == w1.position
      w2 == resolve(variants[value[1] + 1], w1, value[2], resolver.inner).w
  IN RR(padTo(w2, pos + unionLayout(variants).size), pos)

\* ----------------------------------------------------- codec dispatch
\* The _archive method of each codec.
archiveOf(c, w, value) ==
  CASE c.a = <<>> /\ c.k # "string" -> AR(w, [pos |-> 0])
    [] c.k = "string" -> stringArchive(w, value)
    [] c.k = "vec" -> vecArchive(c.a[1], w, value)
    [] c.k = "option" -> optionArchive(c.a[1], w, value)
    [] c.k = "box" -> boxArchive(c.a[1], w, value)
    [] c.k = "weak" -> weakArchive(c.a[1], w, value)
    [] c.k = "array" -> arrayArchive(c.a[1], c.n, w, value)
    [] c.k = "tuple" -> tupleArchive(c.a, w, value)
    [] c.k = "struct" -> structArchive(c.a, w, value)
    [] c.k = "taggedEnum" -> enumArchive(c.a, w, value)
    [] c.k = "btreeMap" -> btreeArchive(c.a[1], c.a[2], c.n, w, value)
    [] c.k = "hashMap" -> hashMapArchive(c.a[1], c.a[2], w, value)
    [] c.k = "indexMap" -> indexMapArchive(c.a[1], c.a[2], w, value)
    [] c.k = "indexSet" -> indexSetArchive(c.a[1], w, value)
    [] c.k = "union" -> unionArchive(c.a, w, value)

\* The _resolve method of each codec.
resolveOf(c, w, value, resolver) ==
  LET \* vec._resolve: the slot, the length, then the pointer patch.
      vecResolve ==
        LET w1 == align(w, 4)
            structPos == w1.position
            ptrPos == structPos
            w2 == writeU32(reserveRelPtr32(w1), resolver.len)
        IN IF resolver.len > 0
           THEN RR(writeRelPtr32At(w2, ptrPos, resolver.pos), structPos)
           ELSE RR(writeRelPtr32At(w2, ptrPos, 0), structPos)
      \* box._resolve
      boxResolve ==
        LET w1 == align(w, 4)
            pos == w1.position
        IN RR(writeRelPtr32At(reserveRelPtr32(w1), pos, resolver.pos), pos)
      \* weak._resolve: null is a stored 0.
      weakResolve ==
        LET w1 == align(w, 4)
            pos == w1.position
        IN IF resolver.isNull THEN RR(writeI32(w1, 0), pos)
           ELSE RR(writeRelPtr32At(reserveRelPtr32(w1), pos, resolver.pos), pos)
  IN
  CASE c.k = "unit" -> RR(w, w.position)
    [] c.a = <<>> /\ c.k \notin {"string", "unit"} ->
         LET w1 == writePrimitive(c.k, w, value)
         IN RR(w1, w1.position - c.size)
    [] c.k = "string" -> stringResolve(w, value, resolver)
    [] c.k = "vec" -> vecResolve
    [] c.k = "option" -> optionResolve(c.a[1], w, value, resolver)
    [] c.k = "box" -> boxResolve
    [] c.k = "weak" -> weakResolve
    [] c.k = "array" -> arrayResolve(c.a[1], c.n, w, value, resolver)
    [] c.k \in {"tuple"} -> tupleResolve(c.a, w, value, resolver)
    [] c.k = "struct" -> structResolve(c.a, w, value, resolver)
    [] c.k = "taggedEnum" -> enumResolve(c.a, w, value, resolver)
    [] c.k = "btreeMap" -> btreeResolve(w, resolver)
    [] c.k = "hashMap" -> hashMapResolve(w, resolver)
    [] c.k \in {"indexMap", "indexSet"} -> indexMapResolve(w, resolver)
    [] c.k = "union" -> unionResolve(c.a, w, value, resolver)

codecMethod(name, c, w, value, resolver) ==
  LET \* The encode method of every codec:
      \* const resolver = this._archive(writer, value);
      \* return this._resolve(writer, value, resolver)
      \* An _archive that throws ends the call: no position is returned.
      resolveWith(a) == IF a.w.thrown THEN RR(a.w, 0) ELSE resolve(c, a.w, value, a.r)
  IN
  CASE name = "_archive" -> archiveOf(c, w, value)
    [] name = "_resolve" -> resolveOf(c, w, value, resolver)
    [] name = "encode" -> resolveWith(archive(c, w, value))

\* codec.encode(writer, value)
codecEncode(c, w, value) == codecMethod("encode", c, w, value, <<>>)

\* ----------------------------------------------------------------- decode
\* decodeString, inline branch: the index of the first 0xff, at most 8.
\* -1: a read left the buffer.
RECURSIVE inlineLength(_, _, _)
inlineLength(buf, offset, length) ==
  IF length >= 8 THEN length
  ELSE LET b == readU8(buf, offset + length)
       IN IF ~b.ok THEN -1
          ELSE IF b.v = 255 THEN length
          ELSE inlineLength(buf, offset, length + 1)

\* length = (lenWithMarker & 0x3f) | ((lenWithMarker >>> 8) << 6), of the
\* four little-endian bytes readU32 reads: >>> 8 is the value of bytes
\* 1..3, which is below 2^24, so that << 6 stays within 32 bits.
decodedLen(lenWithMarker) ==
  (lenWithMarker[1] % 64) + leValue(lenWithMarker, 1, 3) * 64

decodeString(buf, offset) ==
  LET \* TextDecoder.decode (non-fatal): a malformed byte becomes U+FFFD.  A lead
      \* byte with all its continuation bytes is one code point and takes them
      \* with it; every other byte is decoded on its own.
      decodeFrom(bs, i) ==
        LET IsCont(i1) == i1 <= Len(bs) /\ bs[i1] >= 128 /\ bs[i1] < 192
            width(j) ==
              LET b == bs[j]
              IN IF b >= 194 /\ b < 224 /\ IsCont(j + 1) THEN 2
                 ELSE IF b >= 224 /\ b < 240 /\ IsCont(j + 1) /\ IsCont(j + 2) THEN 3
                 ELSE IF b >= 240 /\ b < 245 /\ IsCont(j + 1) /\ IsCont(j + 2)
                         /\ IsCont(j + 3)
                      THEN 4
                 ELSE 1
            codePoint(j) ==
              LET b == bs[j]
                  w == width(j)
              IN IF b < 128 THEN b
                 ELSE IF w = 2 THEN (b - 192) * 64 + (bs[j + 1] - 128)
                 ELSE IF w = 3
                      THEN (b - 224) * 4096 + (bs[j + 1] - 128) * 64 + (bs[j + 2] - 128)
                 ELSE IF w = 4
                      THEN (b - 240) * 262144 + (bs[j + 1] - 128) * 4096
                           + (bs[j + 2] - 128) * 64 + (bs[j + 3] - 128)
                 ELSE 65533
            taken(j) == \E l \in Max2(i, j - 3)..(j - 1) : l + width(l) > j
            starts == SelectSeq([k \in 1..Max2(0, Len(bs) + 1 - i) |-> i + k - 1],
                                LAMBDA j : ~taken(j))
        IN [k \in 1..Len(starts) |-> codePoint(starts[k])]
  IN
  LET \* readText(offset, length): readBytes (a RangeError outside the buffer),
      \* then the decoder.
      readText(offset1, length) ==
        IF length < 0 \/ ~InRange(buf, offset1, length) THEN Err
        ELSE Ok(decodeFrom(SubSeq(buf, offset1 + 1, offset1 + length), 1))
  IN
  LET \* isInline = (firstByte & 0xc0) !== 0x80
      isInline(firstByte) == ~(firstByte >= 128 /\ firstByte < 192)
  IN
  LET firstByte == readU8(buf, offset)
  IN IF ~firstByte.ok THEN Err
     ELSE IF isInline(firstByte.v)
     THEN LET length == inlineLength(buf, offset, 0)
          IN IF length < 0 THEN Err ELSE readText(offset, length)
     ELSE LET lenWithMarker == readU32(buf, offset)
              relPtr == readI32(buf, offset + 4)
          IN IF ~lenWithMarker.ok \/ ~relPtr.ok THEN Err
             ELSE readText(offset + relPtr.v,
                           decodedLen(SubSeq(buf, offset + 1, offset + 4)))

readPrimitive(k, buf, offset) ==
  LET \* getBigUint64, for values below 2^31.
      readU64 ==
        IF ~InRange(buf, offset, 8) THEN Err
        ELSE IF \E i \in 4..8 : buf[offset + i] # 0 /\ (i > 4 \/ buf[offset + i] >= 128)
             THEN Ok(MaxInt)
        ELSE Ok(leValue(buf, offset, 4))
      readBool ==
        IF InRange(buf, offset, 1) THEN Ok(IF buf[offset + 1] # 0 THEN 1 ELSE 0) ELSE Err
  IN
  CASE k = "u8" -> readU8(buf, offset)
    [] k = "bool" -> readBool
    [] k = "u16" -> readU16(buf, offset)
    [] k = "u32" -> readU32(buf, offset)
    [] k = "i32" -> readI32(buf, offset)
    [] k = "u64" -> readU64
    [] k = "unit" -> Ok(<<>>)

readDiscriminant(buf, offset, dsize) ==
  IF dsize = 1 THEN readU8(buf, offset)
  ELSE IF dsize = 2 THEN readU16(buf, offset) ELSE readU32(buf, offset)

\* Map.set: a present key keeps its place and takes the new value.
mapSet(result, key, value) ==
  IF \E i \in 1..Len(result) : result[i][1] = key
  THEN LET at == CHOOSE i \in 1..Len(result) : result[i][1] = key
       IN [result EXCEPT ![at] = <<key, value>>]
  ELSE Append(result, <<key, value>>)

RECURSIVE decode(_, _, _), decodeVec(_, _, _, _, _, _), decodeArray(_, _, _, _, _, _),
          decodeFields(_, _, _, _, _, _), descend(_, _, _, _),
          collectLoop(_, _, _, _, _, _, _), decodeEntries(_, _, _, _, _, _),
          decodeGroups(_, _, _, _, _, _, _), decodeGroup(_, _, _, _, _, _, _, _),
          decodeElements(_, _, _, _, _)

\* vec.decode: each element at the running offset aligned to element.align.
decodeVec(element, buf, currentOffset, i, length, result) ==
  IF i >= length THEN Ok(result)
  ELSE LET at == alignOffset(currentOffset, element.align)
           r == decode(element, buf, at)
       IN IF ~r.ok THEN Err
          ELSE decodeVec(element, buf, at + element.size, i + 1, length,
                         Append(result, r.v))

\* array.decode: element i at offset + i * elementStride
decodeArray(element, buf, offset, i, length, result) ==
  IF i >= length THEN Ok(result)
  ELSE LET r == decode(element, buf, offset + i * elementStride(element))
       IN IF ~r.ok THEN Err
          ELSE decodeArray(element, buf, offset, i + 1, length, Append(result, r.v))

\* tuple.decode / struct.decode: field i at offset + offsets[i]
decodeFields(codecs, buf, offset, offsets, i, result) ==
  IF i > Len(codecs) THEN Ok(result)
  ELSE LET r == decode(codecs[i], buf, offset + offsets[i])
       IN IF ~r.ok THEN Err
          ELSE decodeFields(codecs, buf, offset, offsets, i + 1, Append(result, r.v))

\* A taggedEnum.decode that takes the first variant for an index with no
\* variant.
enumDecodeDefaulting(variants, buf, offset) ==
  LET dsize == discriminantSize(Len(variants))
      discriminant == readDiscriminant(buf, offset, dsize)
  IN IF ~discriminant.ok THEN Err
     ELSE LET index == IF discriminant.v >= Len(variants) THEN 0 ELSE discriminant.v
              codec == variants[index + 1]
          IN IF codec.size = 0 THEN Ok(<<index, <<>>>>)
             ELSE LET r == decode(codec, buf, offset + dsize + variantPadding(dsize, codec))
                  IN IF r.ok THEN Ok(<<index, r.v>>) ELSE Err

\* taggedEnum.decode: an index with no variant makes info undefined, and
\* info.isUnit throws.
enumDecode(variants, buf, offset) ==
  LET dsize == discriminantSize(Len(variants))
      discriminant == readDiscriminant(buf, offset, dsize)
  IN IF ~discriminant.ok THEN Err
     ELSE IF discriminant.v >= Len(variants) THEN Err
     ELSE LET codec == variants[discriminant.v + 1]
          IN IF codec.size = 0 THEN Ok(<<discriminant.v, <<>>>>)
             ELSE LET r == decode(codec, buf, offset + dsize + variantPadding(dsize, codec))
                  IN IF r.ok THEN Ok(<<discriminant.v, r.v>>) ELSE Err

\* btreeMap collectEntries: push nodes down the first lesser pointers until
\* a leaf (or a 0 pointer) is met.
descend(buf, L, current, stack) ==
  LET kind == readU8(buf, current)
      pushed == Append(stack, [nodeOffset |-> current, nextIndex |-> 0])
  IN IF ~kind.ok THEN Err
     ELSE IF kind.v = NODE_KIND_LEAF THEN Ok(pushed)
     ELSE LET lesserPtr == current + L.lesserNodesOffset
              relOffset == readI32(buf, lesserPtr)
          IN IF ~relOffset.ok THEN Err
             ELSE IF relOffset.v = 0 THEN Ok(pushed)
             ELSE descend(buf, L, lesserPtr + relOffset.v, pushed)

\* btreeMap collectEntries, the second loop:
\* while (stack.length > 0 && result.size < len) { ... }
collectLoop(buf, L, keyCodec, valueCodec, E, len, st) ==
  LET \* A decoding loop that threw.
      Thrown == [ok |-> FALSE, stack |-> <<>>, result |-> <<>>]
  IN
  LET \* btreeMap collectEntries, one turn of the second loop on the node at the
      \* top of the stack.
      collectStep ==
        LET top == st.stack[Len(st.stack)]
            rest == SubSeq(st.stack, 1, Len(st.stack) - 1)
            kind == readU8(buf, top.nodeOffset)
            key == decode(keyCodec, buf,
                          top.nodeOffset + L.keysOffset + top.nextIndex * L.keyStride)
            val == decode(valueCodec, buf,
                          top.nodeOffset + L.valuesOffset + top.nextIndex * L.valueStride)
            bumped == Append(rest, [top EXCEPT !.nextIndex = top.nextIndex + 1])
            popped == [ok |-> TRUE, stack |-> rest, result |-> st.result]
        IN IF ~kind.ok THEN Thrown
           ELSE IF kind.v = NODE_KIND_LEAF
           THEN LET leafLen == readU32(buf, top.nodeOffset + L.leafLenOffset)
                IN IF ~leafLen.ok THEN Thrown
                   ELSE IF top.nextIndex < leafLen.v
                   THEN IF ~key.ok \/ ~val.ok THEN Thrown
                        ELSE [ok |-> TRUE, stack |-> bumped,
                              result |-> mapSet(st.result, key.v, val.v)]
                   ELSE popped
           ELSE IF top.nextIndex < E
           THEN IF ~key.ok \/ ~val.ok THEN Thrown
                ELSE LET nextChildPtrOffset ==
                           IF top.nextIndex + 1 < E
                           THEN top.nodeOffset + L.lesserNodesOffset + (top.nextIndex + 1) * 4
                           ELSE top.nodeOffset + L.greaterNodeOffset
                         relOffset == readI32(buf, nextChildPtrOffset)
                         down == IF relOffset.v # 0
                                 THEN descend(buf, L, nextChildPtrOffset + relOffset.v, bumped)
                                 ELSE Ok(bumped)
                     IN IF ~relOffset.ok THEN Thrown
                        ELSE IF ~down.ok THEN Thrown
                        ELSE [ok |-> TRUE, stack |-> down.v,
                              result |-> mapSet(st.result, key.v, val.v)]
           ELSE popped
  IN
  IF ~st.ok THEN Err
  ELSE IF ~(Len(st.stack) > 0 /\ Len(st.result) < len) THEN Ok(st.result)
  ELSE collectLoop(buf, L, keyCodec, valueCodec, E, len,
                   collectStep)

\* btreeMap collectEntries
collectEntries(buf, L, keyCodec, valueCodec, E, rootOffset, len) ==
  IF len = 0 THEN Ok(<<>>)
  ELSE LET stack == descend(buf, L, rootOffset, <<>>)
       IN IF ~stack.ok THEN Err
          ELSE collectLoop(buf, L, keyCodec, valueCodec, E, len,
                           [ok |-> TRUE, stack |-> stack.v, result |-> <<>>])

\* btreeMap.decode
btreeDecode(keyCodec, valueCodec, E, buf, offset) ==
  LET rootRelOffset == readI32(buf, offset)
      len == readU32(buf, offset + 4)
  IN IF ~rootRelOffset.ok \/ ~len.ok THEN Err
     ELSE IF len.v = 0 THEN Ok(<<>>)
     ELSE collectEntries(buf, nodeLayout(keyCodec, valueCodec, E), keyCodec, valueCodec,
                         E, offset + rootRelOffset.v, len.v)

\* hashMap.decode, the for loop over one group of control bytes; it breaks
\* when the last item was found.
decodeGroup(keyCodec, valueCodec, buf, controlBytesOffset, capacity, groupBase, bit, g) ==
  LET \* hashMap.decode, one control byte of a group: a full slot is decoded from
      \* its bucket below the control bytes, and counted.
      decodeSlot(slot) ==
        LET ctrl == readU8(buf, controlBytesOffset + slot)
            EL == entryLayout(keyCodec, valueCodec)
            entryOffset == controlBytesOffset - (slot + 1) * EL.entrySize
            key == decode(keyCodec, buf, entryOffset)
            val == decode(valueCodec, buf, entryOffset + EL.valueOffset)
            failed == [ok |-> FALSE, itemsLeft |-> 0, result |-> <<>>]
        IN IF ~ctrl.ok THEN failed
           ELSE IF ctrl.v < 128
           THEN IF ~key.ok \/ ~val.ok THEN failed
                ELSE [ok |-> TRUE, itemsLeft |-> g.itemsLeft - 1,
                      result |-> mapSet(g.result, key.v, val.v)]
           ELSE g
  IN
  IF ~g.ok \/ g.itemsLeft = 0 \/ ~(bit < MAX_GROUP_WIDTH /\ groupBase + bit < capacity)
  THEN g
  ELSE decodeGroup(keyCodec, valueCodec, buf, controlBytesOffset, capacity, groupBase,
                   bit + 1,
                   decodeSlot(groupBase + bit))

\* hashMap.decode: while (itemsLeft > 0 && groupBase < capacity)
decodeGroups(keyCodec, valueCodec, buf, controlBytesOffset, capacity, groupBase, g) ==
  IF ~g.ok THEN Err
  ELSE IF ~(g.itemsLeft > 0 /\ groupBase < capacity) THEN Ok(g.result)
  ELSE decodeGroups(keyCodec, valueCodec, buf, controlBytesOffset, capacity,
                    groupBase + MAX_GROUP_WIDTH,
                    decodeGroup(keyCodec, valueCodec, buf, controlBytesOffset, capacity,
                                groupBase, 0, g))

\* hashMap.decode
hashMapDecode(keyCodec, valueCodec, buf, offset) ==
  LET controlBytesOffset == readRelPtr32(buf, offset)
      length == readU32(buf, offset + 4)
      capacity == readU32(buf, offset + 8)
  IN IF ~controlBytesOffset.ok \/ ~length.ok \/ ~capacity.ok THEN Err
     ELSE IF length.v = 0 THEN Ok(<<>>)
     ELSE decodeGroups(keyCodec, valueCodec, buf, controlBytesOffset.v, capacity.v, 0,
                       [ok |-> TRUE, itemsLeft |-> length.v, result |-> <<>>])

\* indexMap.decode, the loop over the entries array
decodeEntries(keyCodec, valueCodec, buf, i, length, d) ==
  LET \* indexMap.decode, one turn of the loop: the entry at the running offset
      \* aligned to entryAlign.
      decodeEntry ==
        LET EL == entryLayout(keyCodec, valueCodec)
            at == alignOffset(d.currentOffset, EL.entryAlign)
            key == decode(keyCodec, buf, at)
            val == decode(valueCodec, buf, at + EL.valueOffset)
        IN IF ~key.ok \/ ~val.ok THEN [ok |-> FALSE, currentOffset |-> 0, result |-> <<>>]
           ELSE [ok |-> TRUE, currentOffset |-> at + EL.entrySize,
                 result |-> mapSet(d.result, key.v, val.v)]
  IN
  IF ~d.ok THEN Err
  ELSE IF i >= length THEN Ok(d.result)
  ELSE decodeEntries(keyCodec, valueCodec, buf, i + 1, length,
                     decodeEntry)

\* indexMap.decode: the length of the table, then the entries array.
indexMapDecode(keyCodec, valueCodec, buf, offset) ==
  LET length == readU32(buf, offset + 4)
      entriesOffset == readRelPtr32(buf, offset + 12)
  IN IF ~length.ok \/ ~entriesOffset.ok THEN Err
     ELSE decodeEntries(keyCodec, valueCodec, buf, 0, length.v,
                        [ok |-> TRUE, currentOffset |-> entriesOffset.v, result |-> <<>>])

\* indexSet.decode, the loop over the entries array
decodeElements(element, buf, i, length, d) ==
  LET \* Set.add: a present element keeps its place.
      setAdd(result, v) ==
        IF \E j \in 1..Len(result) : result[j] = v THEN result ELSE Append(result, v)
      \* indexSet.decode, one turn of the loop: the element at the running offset
      \* aligned to element.align.
      decodeElement ==
        LET at == alignOffset(d.currentOffset, element.align)
            r == decode(element, buf, at)
        IN IF ~r.ok THEN [ok |-> FALSE, currentOffset |-> 0, result |-> <<>>]
           ELSE [ok |-> TRUE, currentOffset |-> at + elementStride(element),
                 result |-> setAdd(d.result, r.v)]
  IN
  IF ~d.ok THEN Err
  ELSE IF i >= length THEN Ok(d.result)
  ELSE decodeElements(element, buf, i + 1, length, decodeElement)

\* indexSet.decode
indexSetDecode(element, buf, offset) ==
  LET length == readU32(buf, offset + 4)
      entriesOffset == readRelPtr32(buf, offset + 12)
  IN IF ~length.ok \/ ~entriesOffset.ok THEN Err
     ELSE decodeElements(element, buf, 0, length.v,
                         [ok |-> TRUE, currentOffset |-> entriesOffset.v, result |-> <<>>])

\* The discriminate function a union is built with: the one of the union's
\* documentation, reader.readU8(offset) === 0 ? first : second.
discriminate(buf, offset) ==
  LET b == readU8(buf, offset)
  IN IF ~b.ok THEN Err ELSE Ok(IF b.v = 0 THEN 0 ELSE 1)

\* union.decode
unionDecode(variants, buf, offset) ==
  LET type == discriminate(buf, offset)
  IN IF ~type.ok THEN Err
     ELSE LET r == decode(variants[type.v + 1], buf, offset)
          IN IF r.ok THEN Ok(<<type.v, r.v>>) ELSE Err

\* vec.decode
vecDecode(element, buf, offset) ==
  LET dataOffset == readRelPtr32(buf, offset)
      length == readU32(buf, offset + 4)
  IN IF ~dataOffset.ok \/ ~length.ok THEN Err
     ELSE decodeVec(element, buf, dataOffset.v, 0, length.v, <<>>)

\* option.decode
optionDecode(inner, buf, offset) ==
  LET tag == readU8(buf, offset)
  IN IF ~tag.ok THEN Err
     ELSE IF tag.v = 0 THEN Ok(<<>>)
     ELSE LET r == decode(inner, buf, offset + 1 + optionPadding(inner))
          IN IF r.ok THEN Ok(<<r.v>>) ELSE Err

\* box.decode
boxDecode(inner, buf, offset) ==
  LET dataOffset == readRelPtr32(buf, offset)
  IN IF ~dataOffset.ok THEN Err ELSE decode(inner, buf, dataOffset.v)

\* A weak.decode that follows the stored offset without looking for the
\* null sentinel.
weakDecodeResolving(inner, buf, offset) ==
  LET relOffset == readI32(buf, offset)
  IN IF ~relOffset.ok THEN Err
     ELSE LET r == decode(inner, buf, offset + relOffset.v)
          IN IF r.ok THEN Ok(<<r.v>>) ELSE Err

\* weak.decode: a stored 0 is null.
weakDecode(inner, buf, offset) ==
  LET relOffset == readI32(buf, offset)
  IN IF ~relOffset.ok THEN Err
     ELSE IF relOffset.v = 0 THEN Ok(<<>>)
     ELSE LET r == decode(inner, buf, offset + relOffset.v)
          IN IF r.ok THEN Ok(<<r.v>>) ELSE Err

\* codec.decode(reader, offset)
decode(c, buf, offset) ==
  CASE c.a = <<>> /\ c.k # "string" -> readPrimitive(c.k, buf, offset)
    [] c.k = "string" -> decodeString(buf, offset)
    [] c.k = "vec" -> vecDecode(c.a[1], buf, offset)
    [] c.k = "option" -> optionDecode(c.a[1], buf, offset)
    [] c.k = "box" -> boxDecode(c.a[1], buf, offset)
    [] c.k = "weak" -> weakDecode(c.a[1], buf, offset)
    [] c.k = "array" -> decodeArray(c.a[1], buf, offset, 0, c.n, <<>>)
    [] c.k \in {"tuple", "struct"} ->
         decodeFields(c.a, buf, offset, layout(c.a).offsets, 1, <<>>)
    [] c.k = "taggedEnum" -> enumDecode(c.a, buf, offset)
    [] c.k = "btreeMap" -> btreeDecode(c.a[1], c.a[2], c.n, buf, offset)
    [] c.k = "hashMap" -> hashMapDecode(c.a[1], c.a[2], buf, offset)
    [] c.k = "indexMap" -> indexMapDecode(c.a[1], c.a[2], buf, offset)
    [] c.k = "indexSet" -> indexSetDecode(c.a[1], buf, offset)
    [] c.k = "union" -> unionDecode(c.a, buf, offset)

\* ----------------------------------------------------------------- access
\* The codecs whose access returns a Proxy with a cache of its own.
isView(c) == c.k \in {"vec", "array", "tuple", "struct"}

\* The Proxy a view codec's access builds: vec reads its header eagerly,
\* array/tuple/struct read nothing.
openView(c, buf, offset) ==
  IF c.k = "vec"
  THEN LET dataOffset == readRelPtr32(buf, offset)
           length == readU32(buf, offset + 4)
       IN IF ~dataOffset.ok \/ ~length.ok THEN Err
          ELSE Ok([codec |-> c, offset |-> offset, dataOffset |-> dataOffset.v,
                   length |-> length.v])
  ELSE Ok([codec |-> c, offset |-> offset, dataOffset |-> offset,
           length |-> IF c.k = "array" THEN c.n ELSE Len(c.a)])

\* The codec of element (field) index of a view, index counted from 0.
elementCodec(view, index) ==
  IF view.codec.k \in {"vec", "array"} THEN view.codec.a[1] ELSE view.codec.a[index + 1]

\* A get trap that takes a vector's elements to start at the vector's own
\* offset instead of where its pointer leads.
elementOffsetAtView(view, index) ==
  IF view.codec.k \in {"vec", "array"}
  THEN view.offset + index * elementStride(view.codec.a[1])
  ELSE view.offset + layout(view.codec.a).offsets[index + 1]

\* The offset the get trap hands to element.access.
elementOffset(view, index) ==
  CASE view.codec.k = "vec" ->
         view.dataOffset + index * elementStride(view.codec.a[1])
    [] view.codec.k = "array" ->
         view.offset + index * elementStride(view.codec.a[1])
    [] view.codec.k \in {"tuple", "struct"} ->
         view.offset + layout(view.codec.a).offsets[index + 1]

RECURSIVE access(_, _, _)

\* taggedEnum.access
enumAccess(variants, buf, offset) ==
  LET dsize == discriminantSize(Len(variants))
      discriminant == readDiscriminant(buf, offset, dsize)
  IN IF ~discriminant.ok THEN Err
     ELSE IF discriminant.v >= Len(variants) THEN Err
     ELSE LET codec == variants[discriminant.v + 1]
          IN IF codec.size = 0 THEN Ok(<<discriminant.v, <<>>>>)
             ELSE LET r == access(codec, buf, offset + dsize + variantPadding(dsize, codec))
                  IN IF r.ok THEN Ok(<<discriminant.v, r.v>>) ELSE Err

\* union.access
unionAccess(variants, buf, offset) ==
  LET type == discriminate(buf, offset)
  IN IF ~type.ok THEN Err
     ELSE LET r == access(variants[type.v + 1], buf, offset)
          IN IF r.ok THEN Ok(<<type.v, r.v>>) ELSE Err

\* option.access
optionAccess(inner, buf, offset) ==
  LET tag == readU8(buf, offset)
  IN IF ~tag.ok THEN Err
     ELSE IF tag.v = 0 THEN Ok(<<>>)
     ELSE LET r == access(inner, buf, offset + 1 + optionPadding(inner))
          IN IF r.ok THEN Ok(<<r.v>>) ELSE Err

\* box.access
boxAccess(inner, buf, offset) ==
  LET dataOffset == readRelPtr32(buf, offset)
  IN IF ~dataOffset.ok THEN Err ELSE access(inner, buf, dataOffset.v)

\* weak.access
weakAccess(inner, buf, offset) ==
  LET relOffset == readI32(buf, offset)
  IN IF ~relOffset.ok THEN Err
     ELSE IF relOffset.v = 0 THEN Ok(<<>>)
     ELSE LET r == access(inner, buf, offset + relOffset.v)
          IN IF r.ok THEN Ok(<<r.v>>) ELSE Err

\* codec.access(reader, offset): a view codec answers with its Proxy
\* ([proxy |-> ...]), a wrapper with the wrapped answer of its inner codec,
\* every other codec with this.decode.
access(c, buf, offset) ==
  CASE isView(c) ->
         LET v == openView(c, buf, offset)
         IN IF v.ok THEN Ok([proxy |-> v.v]) ELSE Err
    [] c.k = "option" -> optionAccess(c.a[1], buf, offset)
    [] c.k = "box" -> boxAccess(c.a[1], buf, offset)
    [] c.k = "weak" -> weakAccess(c.a[1], buf, offset)
    [] c.k = "taggedEnum" -> enumAccess(c.a, buf, offset)
    [] c.k = "union" -> unionAccess(c.a, buf, offset)
    [] OTHER -> decode(c, buf, offset)

\* The Proxy inside an answer of access, <<>> when it holds none.
RECURSIVE proxyOf(_, _)
proxyOf(c, x) ==
  CASE isView(c) -> <<x.proxy>>
    [] c.k \in {"option", "weak"} -> IF x = <<>> THEN <<>> ELSE proxyOf(c.a[1], x[1])
    [] c.k = "box" -> proxyOf(c.a[1], x)
    [] c.k = "taggedEnum" ->
         IF c.a[x[1] + 1].size = 0 THEN <<>> ELSE proxyOf(c.a[x[1] + 1], x[2])
    [] c.k = "union" -> proxyOf(c.a[x[1] + 1], x[2])
    [] OTHER -> <<>>

\* Reading every element of every Proxy of an answer, in index order, through
\* the get trap: the plain value a consumer of the view ends up with.
RECURSIVE readAll(_, _, _), readView(_, _, _, _)
readView(buf, view, index, result) ==
  IF index >= view.length THEN Ok(result)
  ELSE LET e == access(elementCodec(view, index), buf, elementOffset(view, index))
           r == IF e.ok THEN readAll(elementCodec(view, index), buf, e.v) ELSE Err
       IN IF ~r.ok THEN Err ELSE readView(buf, view, index + 1, Append(result, r.v))

readAll(c, buf, x) ==
  CASE isView(c) -> readView(buf, x.proxy, 0, <<>>)
    [] c.k \in {"option", "weak"} ->
         IF x = <<>> THEN Ok(<<>>)
         ELSE LET r == readAll(c.a[1], buf, x[1]) IN IF r.ok THEN Ok(<<r.v>>) ELSE Err
    [] c.k = "box" -> readAll(c.a[1], buf, x)
    [] c.k = "taggedEnum" ->
         IF c.a[x[1] + 1].size = 0 THEN Ok(x)
         ELSE LET r == readAll(c.a[x[1] + 1], buf, x[2])
              IN IF r.ok THEN Ok(<<x[1], r.v>>) ELSE Err
    [] c.k = "union" ->
         LET r == readAll(c.a[x[1] + 1], buf, x[2])
         IN IF r.ok THEN Ok(<<x[1], r.v>>) ELSE Err
    [] OTHER -> Ok(x)

\* access followed by a read of everything.
accessAll(c, buf, offset) ==
  LET x == access(c, buf, offset) IN IF x.ok THEN readAll(c, buf, x.v) ELSE Err

\* A cache that is never consulted.
cacheHasNever(cache, index) == FALSE

\* cache.has(index)
cacheHas(cache, index) == index \in DOMAIN cache

\* ------------------------------------------------------------ the inputs
\* Strings as code points: "hi" (inline), "" , "hello", 8 bytes (the longest
\* inline form), 12 bytes (out of line), two multi-byte code points followed
\* by "a", and MaxLen bytes (an out-of-line length above 63).
Hi == <<104, 105>>
Hello == <<104, 101, 108, 108, 111>>
Eight == <<97, 98, 99, 100, 101, 102, 103, 104>>
Twelve == <<104, 101, 108, 108, 111, 32, 119, 111, 114, 108, 100, 33>>
Accented == <<233, 8364, 97>>
Long == [i \in 1..MaxLen |-> 97 + (i % 26)]

\* A few values of every codec's domain.
RECURSIVE Values(_), Products(_, _)
Products(codecs, i) ==
  IF i > Len(codecs) THEN {<<>>}
  ELSE {<<v>> \o rest : v \in Values(codecs[i]), rest \in Products(codecs, i + 1)}

Values(c) ==
  CASE c.k = "u8" -> {0, 200}
    [] c.k = "u16" -> {513}
    [] c.k = "u32" -> {7, 70000}
    [] c.k = "i32" -> {-5, 5}
    [] c.k = "u64" -> {9}
    [] c.k = "bool" -> {0, 1}
    [] c.k = "unit" -> {<<>>}
    [] c.k = "string" -> {Hi, Twelve}
    [] c.k = "vec" ->
         {<<>>} \cup {<<v>> : v \in Values(c.a[1])}
                \cup {<<v, w>> : v \in Values(c.a[1]), w \in Values(c.a[1])}
    [] c.k \in {"option", "weak"} -> {<<>>} \cup {<<v>> : v \in Values(c.a[1])}
    [] c.k = "box" -> Values(c.a[1])
    [] c.k = "array" -> Products([i \in 1..c.n |-> c.a[1]], 1)
    [] c.k \in {"tuple", "struct"} -> Products(c.a, 1)
    [] c.k = "taggedEnum" ->
         UNION {{<<i - 1, v>> : v \in Values(c.a[i])} : i \in 1..Len(c.a)}

Leaves == {u8, u16, u32, u64, string}

Wrapped ==
  UNION {{vec(l), option(l), box(l), weak(l), array(l, 2)} : l \in Leaves}

Pairs == {tuple(<<a, b>>) : a \in Leaves, b \in Leaves}

Enums == {taggedEnum(<<a, b>>) : a \in Leaves \cup {unit}, b \in Leaves}

\* A tagged enum whose largest variant is smaller than a multiple of the
\* enum's alignment.
OddEnum == taggedEnum(<<u16, tuple(<<u8, u8, u8>>)>>)

Nested ==
  {bool, i32, unit, tuple(<<u8, u8, u8>>), struct(<<u8, u64, u16>>), array(u8, 3),
   struct(<<u32, vec(u32)>>), struct(<<u32, string, vec(string)>>),
   vec(vec(u32)), vec(struct(<<u8, u16>>)), struct(<<u8, struct(<<u8, u32>>)>>),
   option(vec(u32)), box(struct(<<u32, string>>)), array(vec(u32), 2),
   struct(<<option(u32), vec(u8)>>), taggedEnum(<<unit, u32, string>>),
   taggedEnum(<<unit, struct(<<u32, vec(u8)>>)>>),
   OddEnum, array(OddEnum, 2), vec(OddEnum), struct(<<u8, OddEnum>>)}

Codecs == Leaves \cup Wrapped \cup Pairs \cup Enums \cup Nested

\* The two-variant unions of the documentation's shape: the first byte of
\* the value tells the variant.
Unions ==
  {<<union(<<tuple(<<u8, u16>>), tuple(<<u8, u8, u8>>)>>), <<0, <<0, 513>>>>>>,
   <<union(<<tuple(<<u8, u16>>), tuple(<<u8, u8, u8>>)>>), <<1, <<1, 0, 200>>>>>>,
   <<union(<<struct(<<u8, vec(u32)>>), struct(<<u8, u64>>)>>), <<0, <<0, <<7>>>>>>>>,
   <<union(<<struct(<<u8, vec(u32)>>), struct(<<u8, u64>>)>>), <<1, <<200, 9>>>>>>}

Strings == {<<string, v>> : v \in {<<>>, Hello, Eight, Accented, Long}}

Universe ==
  UNION {{<<c, v>> : v \in Values(c)} : c \in Codecs} \cup Unions \cup Strings

\* Structural equality of two values of codec c; the entries of a hash map
\* are compared as a set.
RECURSIVE valueEquals(_, _, _)
valueEquals(c, x, y) ==
  CASE c.k = "hashMap" ->
         /\ Len(x) = Len(y)
         /\ \A i \in 1..Len(x) : \E j \in 1..Len(y) : x[i] = y[j]
    [] c.k \in {"vec", "array", "option", "weak"} ->
         /\ Len(x) = Len(y)
         /\ \A i \in 1..Len(x) : valueEquals(c.a[1], x[i], y[i])
    [] c.k \in {"tuple", "struct"} ->
         \A i \in 1..Len(c.a) : valueEquals(c.a[i], x[i], y[i])
    [] c.k = "box" -> valueEquals(c.a[1], x, y)
    [] c.k \in {"taggedEnum", "union"} ->
         x[1] = y[1] /\ valueEquals(c.a[x[1] + 1], x[2], y[2])
    [] OTHER -> x = y

\* ------------------------------------------------------- the state machine
VARIABLES codec, value, pc, bytes, rootPos, decoded, accessed, views, returned,
          writer, last, lazy, packed, table, finished, growth

vars ==
  <<codec, value, pc, bytes, rootPos, decoded, accessed, views, returned, writer, last,
    lazy, packed, table, finished, growth>>

\* What the caller last did with its writer: the method, whether it threw,
\* its arguments, the position it returned, and the number of calls so far.
Did(op, threw, fromPos, toPos, pos, n) ==
  [op |-> op, threw |-> threw, fromPos |-> fromPos, toPos |-> toPos, pos |-> pos, n |-> n]

\* A codec and a value of its domain are given; nothing is encoded yet.
InitCaller(inputs, lengths) ==
  /\ \E p \in inputs : codec = p[1] /\ value = p[2]
  /\ \E len \in lengths : packed = [len |-> len, field |-> <<>>, length |-> <<>>]
  /\ pc = "start"
  /\ bytes = <<>>
  /\ rootPos = 0
  /\ decoded = <<>>
  /\ accessed = <<>>
  /\ views = <<>>
  /\ returned = <<>>
  /\ writer = NewWriter(InitialCapacity)
  /\ last = Did("new", FALSE, 0, 0, 0, 0)
  /\ lazy = [cached |-> <<>>, calls |-> 0, op |-> "lazy", out |-> <<>>]

\* No table is being built, finish() has returned nothing, no buffer grows.
InitWith(inputs, lengths) ==
  /\ InitCaller(inputs, lengths)
  /\ table = <<>>
  /\ finished = <<>>
  /\ growth = <<>>

InitOver(inputs) == InitWith(inputs, {0})

Init == InitOver(Universe)

Encode ==
  LET \* encode(codec, value): a fresh writer, codec.encode, writer.finish().
      \* rootPos keeps the position codec.encode returned.
      Encoded(r) ==
        IF r.w.thrown
        THEN pc' = "threw" /\ UNCHANGED <<bytes, rootPos,
               table, finished, growth>>
        ELSE pc' = "encoded" /\ bytes' = finish(r.w) /\ rootPos' = r.pos
  IN
  /\ pc = "start"
  /\ Encoded(codecEncode(codec, NewWriter(InitialCapacity), value))
  /\ UNCHANGED <<codec, value, decoded, accessed, views, returned, writer, last, lazy, packed,
               table, finished, growth>>

\* decode(codec, bytes)
Decode ==
  /\ pc = "encoded"
  /\ decoded = <<>>
  /\ decoded' = <<decode(codec, bytes, getRootPosition(bytes, codec.size))>>
  /\ UNCHANGED <<codec, value, pc, bytes, rootPos, accessed, views, returned, writer, last, lazy, packed,
               table, finished, growth>>

\* The Proxy an answer of access is, if it is one.
proxyIn(c, x) == IF x.ok THEN proxyOf(c, x.v) ELSE <<>>

\* The views a new answer adds.
viewsOf(proxy) ==
  LET \* A new Proxy with an empty cache.
      newView(proxy1) == [view |-> proxy1, cache |-> <<>>, count |-> <<>>]
  IN
  IF proxy = <<>> THEN <<>> ELSE <<newView(proxy[1])>>

\* access(codec, bytes)
Access ==
  LET Accessed(x) ==
        /\ accessed' = <<x>>
        /\ views' = viewsOf(proxyIn(codec, x))
  IN
  /\ pc = "encoded"
  /\ accessed = <<>>
  /\ Accessed(access(codec, bytes, getRootPosition(bytes, codec.size)))
  /\ UNCHANGED <<codec, value, pc, bytes, rootPos, decoded, returned, writer, last, lazy, packed,
               table, finished, growth>>

ReadSome ==
  LET \* cache.set(index, entry)
      cacheSet(cache, index, entry) ==
        [i \in DOMAIN cache \cup {index} |-> IF i = index THEN entry ELSE cache[i]]
      readResult(id, index, threw, entry) ==
        [id |-> id, index |-> index, threw |-> threw, entry |-> entry]
  IN
  LET \* How many times element.access has returned for an index of a view.
      countOf(count, index) == IF index \in DOMAIN count THEN count[index] ELSE 0
      \* What a read hands back: the answer and the identity (place in views) of
      \* the Proxy in it.
      entryOf(e, proxy) == [x |-> e.v, pid |-> IF proxy = <<>> THEN 0 ELSE Len(views) + 1]
      \* cache.set(index, value) of the view, with the new Proxy joining the views.
      cached(id, index, v, entry, proxy) ==
        [views EXCEPT ![id] =
           [v EXCEPT !.cache = cacheSet(v.cache, index, entry),
                     !.count = cacheSet(v.count, index, countOf(v.count, index) + 1)]]
        \o viewsOf(proxy)
      fetched(id, index, v, e, entry, proxy) ==
        IF ~e.ok
        THEN /\ returned' = Append(returned, readResult(id, index, TRUE, <<>>))
             /\ UNCHANGED views
        ELSE /\ returned' = Append(returned, readResult(id, index, FALSE, entry))
             /\ views' = cached(id, index, v, entry, proxy)
      fetchedProxy(id, index, v, e, proxy) ==
        fetched(id, index, v, e, entryOf(e, proxy), proxy)
      fetchedAs(id, index, v, ec, e) == fetchedProxy(id, index, v, e, proxyIn(ec, e))
      fetch(id, index, v, ec) ==
        fetchedAs(id, index, v, ec, access(ec, bytes, elementOffset(v.view, index)))
      \* The get trap of a view for an index (and one step of its iterator, which
      \* runs the same lines): a cached entry is returned as it is; otherwise
      \* element.access runs, and its answer is cached when it returns.
      getTrap(id, index, v) ==
        IF cacheHas(v.cache, index)
        THEN /\ returned' = Append(returned, readResult(id, index, FALSE, v.cache[index]))
             /\ UNCHANGED views
        ELSE fetch(id, index, v, elementCodec(v.view, index))
      Read(id, index) ==
        /\ pc = "encoded"
        /\ Len(returned) < MaxReads
        /\ id \in 1..Len(views)
        /\ index >= 0 /\ index < views[id].view.length
        /\ getTrap(id, index, views[id])
        /\ UNCHANGED <<codec, value, pc, bytes, rootPos, decoded, accessed, writer, last, lazy, packed,
               table, finished, growth>>
  IN
  \E id \in 1..MaxViews, index \in 0..(MaxIndex - 1) : Read(id, index)

Next == Encode \/ Decode \/ Access \/ ReadSome

Spec == Init /\ [][Next]_vars

\* ----------------------------------------------- the collection machines
\* Key-sorted B-tree maps: n entries with keys base + step * i for i in
\* 1..n, in ascending order, the value of entry i being 10 * i + 1.
sortedEntries(n, base, step) == [i \in 1..n |-> <<base + step * i, 10 * i + 1>>]

\* The map of the repository's "larger maps" test: keys 0..n-1, value 10 * key.
testEntries(n) == [i \in 1..n |-> <<i - 1, 10 * (i - 1)>>]

BTreeInputs ==
  {<<btreeMap(u32, u32, E), sortedEntries(n, base, step)>> :
     E \in {2, 5}, n \in 0..MaxEntries, base \in {-1, 0}, step \in {1, 3}}
  \cup {<<btreeMap(u32, u32, 5), sortedEntries(TestEntries, base, 1)>> : base \in {-1, 0}}
  \cup {<<btreeMap(u32, u32, 5), testEntries(TestEntries)>>}
  \cup {<<btreeMap(string, u32, 5), <<<<Hi, 7>>, <<Twelve, 70000>>>>>>}
  \cup {<<struct(<<u32, btreeMap(u32, string, 5)>>),
          <<7, [i \in 1..n |-> <<i, IF i % 2 = 0 THEN Hi ELSE Twelve>>]>>>> :
        n \in 0..MaxEntries}

InitBTree == InitOver(BTreeInputs)

SpecBTree == InitBTree /\ [][Next]_vars

\* The sequences of at most n distinct members of a set.
RECURSIVE distinctSeqs(_, _)
distinctSeqs(S, n) ==
  IF n = 0 THEN {<<>>}
  ELSE LET shorter == distinctSeqs(S, n - 1)
       IN shorter \cup
          UNION {{Append(q, x) : x \in S \ {q[i] : i \in 1..Len(q)}} :
                 q \in {r \in shorter : Len(r) = n - 1}}

StringKeys == {<<97>>, <<98>>, <<99>>, <<100>>, Twelve}
NumberKeys == {1, 2, 3, 70000}

\* "key" followed by the decimal digits of i
keyName(i) ==
  <<107, 101, 121>> \o (IF i >= 10 THEN <<48 + (i \div 10)>> ELSE <<>>) \o <<48 + (i % 10)>>

\* The entries of a map with the given keys, entry i holding 10 * i + 1.
entriesOf(keys) == [i \in 1..Len(keys) |-> <<keys[i], 10 * i + 1>>]

HashInputs ==
  {<<hashMap(string, u32), entriesOf(keys)>> : keys \in distinctSeqs(StringKeys, MaxKeys)}
  \cup {<<hashMap(u32, u32), entriesOf(keys)>> : keys \in distinctSeqs(NumberKeys, MaxKeys)}
  \cup {<<hashMap(string, u32), entriesOf([i \in 1..TestEntries |-> keyName(i - 1)])>>}
  \cup {<<hashMap(u32, string), <<<<7, Hi>>, <<70000, Twelve>>, <<9, Hello>>>>>>}
  \cup {<<struct(<<u32, hashMap(string, u32)>>), <<7, entriesOf(keys)>>>> :
        keys \in distinctSeqs({<<97>>, <<98>>, Twelve}, MaxKeys)}

InitHash == InitOver(HashInputs)

SpecHash == InitHash /\ [][Next]_vars

IndexInputs ==
  {<<indexMap(string, u32), entriesOf(keys)>> : keys \in distinctSeqs(StringKeys, MaxKeys)}
  \cup {<<indexMap(u32, u32), entriesOf(keys)>> : keys \in distinctSeqs(NumberKeys, MaxKeys)}
  \cup {<<indexMap(u8, string), <<<<200, Twelve>>, <<0, Hi>>, <<7, Hello>>>>>>}
  \cup {<<indexSet(string), keys>> : keys \in distinctSeqs(StringKeys, MaxKeys)}
  \cup {<<indexSet(u32), keys>> : keys \in distinctSeqs(NumberKeys, MaxKeys)}
  \cup {<<indexMap(string, u32), entriesOf([i \in 1..TestEntries |-> keyName(TestEntries - i)])>>}
  \cup {<<struct(<<u32, indexMap(string, u32), indexSet(u32)>>), <<7, entriesOf(keys), elems>>>> :
        keys \in distinctSeqs({<<98>>, <<97>>}, 2), elems \in distinctSeqs({3, 1}, 2)}

InitIndex == InitOver(IndexInputs)

SpecIndex == InitIndex /\ [][Next]_vars

\* ---------------------------------------------------- the caller's writer
\* A caller that owns a writer, calls its methods and hands it to
\* codec.encode.
WriterInputs ==
  {<<struct(<<string, array(u8, 2)>>), <<Twelve, <<1>>>>>>,
   <<array(u8, 2), <<1, 2, 3>>>>,
   <<vec(string), <<Twelve, Hi>>>>,
   <<vec(u32), <<>>>>,
   <<box(u32), 7>>,
   <<array(OddEnum, 2), <<<<0, 513>>, <<0, 513>>>>>>}

InitWriter == InitOver(WriterInputs)

\* A call of a writer method that left the writer as w.
Call(op, w, fromPos, toPos, pos) ==
  /\ last.n < MaxCalls
  /\ writer' = w
  /\ last' = Did(op, FALSE, fromPos, toPos, pos, last.n + 1)
  /\ UNCHANGED <<codec, value, pc, bytes, rootPos, decoded, accessed, views, returned,
               lazy, packed,
               table, finished, growth>>

WriteU8 == Call("writeU8", writeU8(writer, 255), 0, 0, 0)

WriteU32 == Call("writeU32", writeU32(writer, 70000), 0, 0, 0)

WriteBytes ==
  \E bs \in {<<1, 2, 3>>, Repeat(7, InitialCapacity + 1)} :
     Call("writeBytes", writeBytes(writer, bs), 0, 0, 0)

Align == \E alignment \in {4, 8} : Call("align", align(writer, alignment), 0, 0, 0)

PadTo ==
  \E targetPosition \in {6, 20} :
     Call("padTo", padTo(writer, targetPosition), 0, targetPosition, 0)

ReserveRelPtr32 ==
  Call("reserveRelPtr32", reserveRelPtr32(writer), 0, 0, alignOffset(writer.position, 4))

\* writeRelPtr32At as the codecs and the tests call it: on a slot that
\* reserveRelPtr32 returned.
WriteRelPtr32At ==
  \E fromPos \in writer.slots, toPos \in {0, writer.position} :
     Call("writeRelPtr32At", writeRelPtr32At(writer, fromPos, toPos), fromPos, toPos, 0)

\* codec.encode(writer, value) on the caller's writer.  An exception leaves
\* the writer as it was when it was thrown; fromPos is the cursor at the
\* call, pos the position encode returned.
EncodeOn ==
  LET Encoded(r) ==
        /\ writer' = [r.w EXCEPT !.thrown = FALSE]
        /\ last' = Did("encode", r.w.thrown, writer.position, 0, r.pos, last.n + 1)
  IN
  /\ last.n < MaxCalls
  /\ Encoded(codecEncode(codec, writer, value))
  /\ UNCHANGED <<codec, value, pc, bytes, rootPos, decoded, accessed, views, returned,
               lazy, packed,
               table, finished, growth>>

NextWriter ==
  \/ WriteU8 \/ WriteU32 \/ WriteBytes \/ Align \/ PadTo
  \/ ReserveRelPtr32 \/ WriteRelPtr32At \/ EncodeOn

SpecWriter == InitWriter /\ [][NextWriter]_vars

\* ------------------------------------------------------------------ lazy
\* lazy(getCodec) around a supplier that returns codec.  The wrapper is the
\* cell lazy: cached is <<>> for null, calls counts the supplier's
\* invocations, op and out are the member last used and what it returned.
LazyInputs ==
  {<<u32, 7>>, <<string, Twelve>>, <<option(u32), <<7>>>>, <<vec(string), <<Twelve, Hi>>>>,
   <<struct(<<u8, u64, u16>>), <<200, 9, 513>>>>, <<OddEnum, <<0, 513>>>>}

InitLazy == InitOver(LazyInputs)

\* A get that asks the supplier every time.
getAgain(cell, getCodec) == [cell EXCEPT !.cached = <<getCodec>>, !.calls = cell.calls + 1]

\* const get = () => { if (!cached) cached = getCodec(); return cached; }
get(cell, getCodec) ==
  IF cell.cached = <<>>
  THEN [cell EXCEPT !.cached = <<getCodec>>, !.calls = cell.calls + 1]
  ELSE cell

\* A member of the wrapper was used: the cell after get(), the member and
\* what it returned.
Used(cell, op, out) ==
  /\ last.n < MaxCalls
  /\ lazy' = [cell EXCEPT !.op = op, !.out = out]
  /\ last' = Did(op, FALSE, 0, 0, 0, last.n + 1)

\* get size() { return get().size }
LazySize ==
  LET size(cell) == Used(cell, "size", cell.cached[1].size)
  IN
  /\ size(get(lazy, codec))
  /\ UNCHANGED <<codec, value, pc, bytes, rootPos, decoded, accessed, views, returned, writer,
               packed,
               table, finished, growth>>

\* get align() { return get().align }
LazyAlign ==
  LET alignOf(cell) == Used(cell, "align", cell.cached[1].align)
  IN
  /\ alignOf(get(lazy, codec))
  /\ UNCHANGED <<codec, value, pc, bytes, rootPos, decoded, accessed, views, returned, writer,
               packed,
               table, finished, growth>>

\* _archive: (writer, value) => get()._archive(writer, value)
LazyArchive ==
  LET archived(cell, a) == Used(cell, "_archive", a.r) /\ writer' = a.w
      archiveWith(cell) == archived(cell, archive(cell.cached[1], writer, value))
  IN
  /\ lazy.op # "_archive"
  /\ archiveWith(get(lazy, codec))
  /\ UNCHANGED <<codec, value, pc, bytes, rootPos, decoded, accessed, views, returned,
               packed,
               table, finished, growth>>

\* _resolve: (writer, value, resolver) => get()._resolve(writer, value, resolver),
\* with the resolver _archive returned.
LazyResolve ==
  LET resolved(cell, r) == Used(cell, "_resolve", r.pos) /\ writer' = r.w
      resolveWith(cell) == resolved(cell, resolve(cell.cached[1], writer, value, lazy.out))
  IN
  /\ lazy.op = "_archive"
  /\ ~writer.thrown
  /\ resolveWith(get(lazy, codec))
  /\ UNCHANGED <<codec, value, pc, bytes, rootPos, decoded, accessed, views, returned,
               packed,
               table, finished, growth>>

\* encode: (writer, value) => get().encode(writer, value); the caller keeps
\* the bytes of writer.finish().
LazyEncode ==
  LET encoded(cell, r) ==
        /\ Used(cell, "encode", r.pos)
        /\ writer' = r.w
        /\ bytes' = finish(r.w)
      encodeWith(cell) == encoded(cell, codecEncode(cell.cached[1], writer, value))
  IN
  /\ lazy.op # "_archive"
  /\ encodeWith(get(lazy, codec))
  /\ UNCHANGED <<codec, value, pc, rootPos, decoded, accessed, views, returned, packed,
               table, finished, growth>>

\* decode: (reader, offset) => get().decode(reader, offset)
LazyDecode ==
  LET decodeWith(cell) ==
        Used(cell, "decode",
             decode(cell.cached[1], bytes, getRootPosition(bytes, cell.cached[1].size)))
  IN
  /\ lazy.op \in {"encode", "_resolve"}
  /\ decodeWith(get(lazy, codec))
  /\ UNCHANGED <<codec, value, pc, bytes, rootPos, decoded, accessed, views, returned, writer,
               packed,
               table, finished, growth>>

\* access: (reader, offset) => get().access(reader, offset)
LazyAccess ==
  LET accessWith(cell) ==
        Used(cell, "access",
             access(cell.cached[1], bytes, getRootPosition(bytes, cell.cached[1].size)))
  IN
  /\ lazy.op \in {"encode", "_resolve"}
  /\ accessWith(get(lazy, codec))
  /\ UNCHANGED <<codec, value, pc, bytes, rootPos, decoded, accessed, views, returned, writer,
               packed,
               table, finished, growth>>

NextLazy ==
  \/ LazySize \/ LazyAlign \/ LazyArchive \/ LazyResolve \/ LazyEncode
  \/ LazyDecode \/ LazyAccess

SpecLazy == InitLazy /\ [][NextLazy]_vars

\* ----------------------------------------------------- the length field
\* The UTF-8 lengths of out-of-line strings: the short ones, and the ones
\* around the 29th and the 30th bit.
Lengths ==
  (9..(MaxLen + 2))
    \cup {4095, 4096, 536870911, 536870912, 1073741823, 1073741824, 1073741833, 2147483647}

\* packed is a string of len bytes on its way through string._resolve and
\* decodeString: the length field written, then the length read from it.
InitLength == InitWith({<<string, Twelve>>}, Lengths)

\* string._resolve of an out-of-line string: writer.writeU32(encodedLen).
PackLen ==
  /\ packed.field = <<>>
  /\ packed' = [packed EXCEPT !.field = encodedLen(packed.len)]
  /\ UNCHANGED <<codec, value, pc, bytes, rootPos, decoded, accessed, views, returned,
               writer, last, lazy,
               table, finished, growth>>

\* decodeString of an out-of-line string: the length from the field.
UnpackLen ==
  /\ packed.field # <<>>
  /\ packed.length = <<>>
  /\ packed' = [packed EXCEPT !.length = <<decodedLen(packed.field)>>]
  /\ UNCHANGED <<codec, value, pc, bytes, rootPos, decoded, accessed, views, returned,
               writer, last, lazy,
               table, finished, growth>>

NextLength == PackLen \/ UnpackLen

SpecLength == InitLength /\ [][NextLength]_vars

\* ------------------------------------------------- arrays of any length
\* Fixed arrays of length 2 with values of the right and of other lengths,
\* at the root and inside a struct, a vec and an array.
ArrayInputs ==
  {<<array(u8, 2), v>> : v \in {<<>>, <<1>>, <<1, 2>>, <<1, 2, 3>>}}
    \cup {<<array(string, 2), v>> : v \in {<<Hi, Twelve>>, <<Twelve>>}}
    \cup {<<struct(<<string, array(u8, 2)>>), <<Twelve, v>>>> : v \in {<<1, 2>>, <<1>>}}
    \cup {<<vec(array(u8, 2)), v>> : v \in {<<<<1, 2>>, <<3, 4>>>>, <<<<1, 2>>, <<3>>>>}}
    \cup {<<array(array(u8, 2), 2), <<<<1, 2>>, <<3, 4, 5>>>>>>}

InitArray == InitOver(ArrayInputs)

SpecArray == InitArray /\ [][Next]_vars

\* ------------------------------------------------------- foreign buffers
\* decode and access take any bytes.  The tagged enums whose buffers are
\* handed on with another discriminant byte.
EnumInputs ==
  UNION {{<<c, v>> : v \in Values(c)}
         : c \in {taggedEnum(<<unit, u8>>), taggedEnum(<<u16, string>>), OddEnum}}

\* The discriminant bytes a foreign buffer may hold.
Discriminants == {0, 1, 2, 5, 255}

InitEnum == InitOver(EnumInputs)

\* The caller passes a buffer whose root discriminant byte is d.
Overwrite ==
  /\ pc = "encoded"
  /\ decoded = <<>>
  /\ accessed = <<>>
  /\ \E d \in Discriminants :
       bytes' = [bytes EXCEPT ![getRootPosition(bytes, codec.size) + 1] = d]
  /\ UNCHANGED <<codec, value, pc, rootPos, decoded, accessed, views, returned, writer,
               last, lazy, packed,
               table, finished, growth>>

NextEnum == Next \/ Overwrite

SpecEnum == InitEnum /\ [][NextEnum]_vars

\* ---------------------------------------------------------------- claims
\* C1: round trip.  For every codec and every value of its domain, decoding
\* the buffer that encoding the value produced returns a value structurally
\* equal to the original; the entries of a hash map are compared as a set.
RoundTrip ==
  decoded # <<>> => decoded[1].ok /\ valueEquals(codec, decoded[1].v, value)

\* C2: the root value ends at the final byte of the encoded buffer.  The
\* position the root codec's encode returned on the fresh writer equals
\* finish().length - codec.size, the offset decode takes as the root's.
RootEndsBuffer ==
  pc = "encoded" => rootPos = getRootPosition(bytes, codec.size)

\* The field of index (from 0) of the plain value decode returns for the
\* codec of a view.
decodedElement(view, index) == decode(view.codec, bytes, view.offset).v[index + 1]

\* C3: access/decode equivalence.  Wherever decode returns a value, every
\* field or element read through a view of that offset, with everything
\* below it read through its own views, equals the same field or element of
\* the value decode returns; so does the answer of the root's access.
AccessEqualsDecode ==
  /\ \A id \in 1..Len(views) :
       decode(views[id].view.codec, bytes, views[id].view.offset).ok =>
         \A index \in DOMAIN views[id].cache :
            readAll(elementCodec(views[id].view, index), bytes,
                    views[id].cache[index].x)
              = Ok(decodedElement(views[id].view, index))
  /\ accessed # <<>> =>
       LET d == decode(codec, bytes, getRootPosition(bytes, codec.size))
       IN d.ok => accessed[1].ok /\ readAll(codec, bytes, accessed[1].v) = d

\* C3 happens: a view of a struct and a view nested in it have both been
\* read, and decode returns a value at the root.
AccessEqualsDecodeWitness ==
  /\ Len(views) >= 2
  /\ views[1].view.codec.k = "struct"
  /\ DOMAIN views[1].cache # {}
  /\ DOMAIN views[2].cache # {}
  /\ decode(codec, bytes, views[1].view.offset).ok

\* The offsets and alignments a composite codec's layout calculation gives
\* its fields, as <<offset, align>> pairs.
fieldPlaces(c) ==
  CASE c.k \in {"tuple", "struct"} ->
         {<<layout(c.a).offsets[i], c.a[i].align>> : i \in 1..Len(c.a)}
    [] c.k = "array" ->
         {<<i * elementStride(c.a[1]), c.a[1].align>> : i \in 0..(c.n - 1)}
    [] c.k = "option" -> {<<1 + optionPadding(c.a[1]), c.a[1].align>>}
    [] c.k = "taggedEnum" ->
         {<<discriminantSize(Len(c.a)) + variantPadding(discriminantSize(Len(c.a)), c.a[i]),
            c.a[i].align>> : i \in {j \in 1..Len(c.a) : c.a[j].size # 0}}
    [] c.k = "union" -> {<<0, c.a[i].align>> : i \in 1..Len(c.a)}
    [] OTHER -> {}

isComposite(c) == c.k \in {"struct", "tuple", "array", "option", "taggedEnum", "union"}

RECURSIVE aligned(_)
aligned(c) ==
  /\ isComposite(c) =>
       /\ \A p \in fieldPlaces(c) : p[1] % p[2] = 0
       /\ c.size % c.align = 0
  /\ \A i \in 1..Len(c.a) : aligned(c.a[i])

\* C4: alignment invariant.  For every struct, tuple, array, option, tagged
\* enum and union codec, the one given and every one inside it, each field
\* offset of its layout is a multiple of the field's align, and its size is
\* a multiple of its align.
AlignmentInvariant == aligned(codec)

treeLevels(c, buf, offset) ==
  Len(descend(buf, nodeLayout(c.a[1], c.a[2], c.n), offset + readI32(buf, offset).v,
              <<>>).v)

isAscending(entries) ==
  \A i \in 1..(Len(entries) - 1) : entries[i][1] < entries[i + 1][1]

\* C5: a B-tree map of 20 integer entries with E = 5 is built with at least
\* 2 tree levels, and decoding it yields the entries in ascending key order.
TwentyEntriesAscending ==
  (codec = btreeMap(u32, u32, 5) /\ Len(value) = TestEntries /\ decoded # <<>>) =>
     /\ treeLevels(codec, bytes, rootPos) >= 2
     /\ decoded[1].ok
     /\ isAscending(decoded[1].v)

\* C6: decoding a B-tree map visits exactly len entries.  For every
\* key-sorted map, the decoded map holds every encoded (key, value) pair
\* with its original value and no key that was not encoded.
BTreeDecodesEveryEntry ==
  (codec.k = "btreeMap" /\ decoded # <<>>) =>
     /\ decoded[1].ok
     /\ \A i \in 1..Len(value) :
          \E j \in 1..Len(decoded[1].v) : decoded[1].v[j] = value[i]
     /\ \A j \in 1..Len(decoded[1].v) :
          \E i \in 1..Len(value) : decoded[1].v[j][1] = value[i][1]

\* C7: a hash map survives the round trip whatever the slot order.  For
\* every map of n entries with distinct keys, string or not, colliding or
\* not, decoding its encoding returns exactly the n original pairs.
HashMapRoundTrip ==
  (codec.k = "hashMap" /\ decoded # <<>>) =>
     /\ decoded[1].ok
     /\ Len(decoded[1].v) = Len(value)
     /\ {decoded[1].v[j] : j \in 1..Len(decoded[1].v)} = {value[i] : i \in 1..Len(value)}

\* C7 happens: the map of 20 string keys came back in another order than it
\* was given, and two of its keys hashed to the same slot.
HashMapRoundTripWitness ==
  /\ codec = hashMap(string, u32)
  /\ Len(value) = TestEntries
  /\ decoded # <<>>
  /\ decoded[1].ok
  /\ decoded[1].v # value
  /\ \E i, j \in 1..Len(value) :
       /\ i # j
       /\ hashMod(hashString(value[i][1]), capacityFromLen(Len(value)), 8, 0)
            = hashMod(hashString(value[j][1]), capacityFromLen(Len(value)), 8, 0)

\* C8: the insertion-ordered map and set keep insertion order.  The
\* sequence of keys (elements) decoding returns is the iteration order of
\* the encoded collection, whatever the hash table holds.
InsertionOrderKept ==
  (codec.k \in {"indexMap", "indexSet"} /\ decoded # <<>>) =>
     /\ decoded[1].ok
     /\ decoded[1].v = value

\* C8 happens: a map of three entries whose keys are not in ascending order
\* of their bytes has been decoded, and so has a set.
InsertionOrderKeptWitness ==
  /\ codec = indexMap(string, u32)
  /\ Len(value) = 3
  /\ value[1][1] = <<99>> /\ value[2][1] = <<97>>
  /\ decoded # <<>>
  /\ decoded[1].ok

\* The offsets of the { relptr, len } slots of the empty vectors inside
\* value v of codec c, resolved at offset.
RECURSIVE emptyVecSlots(_, _, _, _)
emptyVecSlots(c, v, buf, offset) ==
  CASE c.k = "vec" ->
         IF Len(v) = 0 THEN {offset}
         ELSE UNION {emptyVecSlots(c.a[1], v[i], buf,
                       readRelPtr32(buf, offset).v + (i - 1) * elementStride(c.a[1]))
                     : i \in 1..Len(v)}
    [] c.k = "array" ->
         UNION {emptyVecSlots(c.a[1], v[i], buf, offset + (i - 1) * elementStride(c.a[1]))
                : i \in 1..Len(v)}
    [] c.k \in {"tuple", "struct"} ->
         UNION {emptyVecSlots(c.a[i], v[i], buf, offset + layout(c.a).offsets[i])
                : i \in 1..Len(c.a)}
    [] c.k = "option" ->
         IF v = <<>> THEN {}
         ELSE emptyVecSlots(c.a[1], v[1], buf, offset + 1 + optionPadding(c.a[1]))
    [] c.k = "box" -> emptyVecSlots(c.a[1], v, buf, readRelPtr32(buf, offset).v)
    [] c.k = "taggedEnum" ->
         emptyVecSlots(c.a[v[1] + 1], v[2], buf,
           offset + discriminantSize(Len(c.a))
                  + variantPadding(discriminantSize(Len(c.a)), c.a[v[1] + 1]))
    [] c.k = "union" -> emptyVecSlots(c.a[v[1] + 1], v[2], buf, offset)
    [] OTHER -> {}

\* C10: an empty vector's slot.  Wherever a vector of length 0 is encoded,
\* at any position and at any depth, its slot holds length 0 and the
\* relative-pointer value 0.
EmptyVecPointerZero ==
  pc = "encoded" =>
    \A slot \in emptyVecSlots(codec, value, bytes, rootPos) :
       readU32(bytes, slot + 4) = Ok(0) /\ readI32(bytes, slot) = Ok(0)

\* C11: the null of a weak pointer.  An absent value is encoded as the
\* stored offset 0, and wherever the stored offset of a weak pointer is 0,
\* decode and access both answer null, the inner codec's answer for that
\* position being no part of it.
WeakNullIsZero ==
  (codec.k = "weak" /\ pc = "encoded") =>
     /\ value = <<>> => readI32(bytes, rootPos) = Ok(0)
     /\ readI32(bytes, getRootPosition(bytes, codec.size)) = Ok(0) =>
          /\ decoded # <<>> => decoded[1] = Ok(<<>>)
          /\ accessed # <<>> => accessed[1] = Ok(<<>>)

\* C11 happens: a null weak string was encoded, decoded and accessed.
WeakNullIsZeroWitness ==
  /\ codec = weak(string)
  /\ value = <<>>
  /\ pc = "encoded"
  /\ readI32(bytes, rootPos) = Ok(0)
  /\ decoded = <<Ok(<<>>)>>
  /\ accessed = <<Ok(<<>>)>>

\* C12: a discriminant with no variant.  When the discriminant stored at
\* the root of a tagged enum is not the index of a declared variant, decode
\* and access both raise an error and return no value.
InvalidDiscriminantThrows ==
  (codec.k = "taggedEnum" /\ pc = "encoded"
   /\ readU8(bytes, getRootPosition(bytes, codec.size)).v >= Len(codec.a)) =>
     /\ decoded # <<>> => decoded[1] = Err
     /\ accessed # <<>> => accessed[1] = Err

\* C12 happens: a buffer with discriminant 5 for an enum of two variants
\* was decoded and accessed.
InvalidDiscriminantThrowsWitness ==
  /\ codec = taggedEnum(<<unit, u8>>)
  /\ pc = "encoded"
  /\ readU8(bytes, getRootPosition(bytes, codec.size)) = Ok(5)
  /\ decoded = <<Err>>
  /\ accessed = <<Err>>

\* A fixed array somewhere in the value has another length than its codec.
RECURSIVE lengthMismatch(_, _)
lengthMismatch(c, v) ==
  CASE c.k = "array" ->
         Len(v) # c.n \/ \E i \in 1..Len(v) : lengthMismatch(c.a[1], v[i])
    [] c.k = "vec" -> \E i \in 1..Len(v) : lengthMismatch(c.a[1], v[i])
    [] c.k \in {"tuple", "struct"} -> \E i \in 1..Len(c.a) : lengthMismatch(c.a[i], v[i])
    [] OTHER -> FALSE

\* C13: a fixed array of the wrong length.  Encoding a value in which a
\* fixed array's length differs from its codec's N throws, and no encoded
\* bytes come out of the call.
LengthMismatchThrows ==
  (pc # "start" /\ lengthMismatch(codec, value)) => pc = "threw" /\ bytes = <<>>

\* C13 happens: encode was called with three items for an array of 2, and
\* threw.
LengthMismatchThrowsWitness ==
  /\ codec = array(u8, 2)
  /\ value = <<1, 2, 3>>
  /\ pc = "threw"

\* C14: an encode that throws.  When codec.encode on a writer throws, the
\* writer's position and its written bytes are what they were before the
\* call.
EncodeThrowsAtomically ==
  [][(last'.n # last.n /\ last'.op = "encode" /\ last'.threw) =>
        /\ writer'.position = writer.position
        /\ finish(writer') = finish(writer)]_vars

\* C15: the buffer is append-only.  No call on the writer, a whole
\* codec.encode included, changes a byte below the cursor, except
\* writeRelPtr32At within the 4 bytes of a slot reserveRelPtr32 returned
\* before; and every writeRelPtr32At a codec makes is on such a slot.
AppendOnly ==
  [][/\ \A i \in 1..writer.position :
          writer'.buffer[i] # writer.buffer[i] =>
             /\ last'.op = "writeRelPtr32At"
             /\ last'.fromPos \in writer.slots
             /\ (i - 1) \in last'.fromPos..(last'.fromPos + 3)
     /\ \A p \in writer'.ptrs : p[3]]_vars

\* C15 happens: a reserved slot was patched after bytes had been written
\* behind it, and the patch changed the slot.
AppendOnlyWitness ==
  /\ last.op = "writeRelPtr32At"
  /\ writer.position >= last.fromPos + 8
  /\ writer.buffer[last.fromPos + 5] # 0
  /\ writer.buffer[last.fromPos + 1] # 0

\* C16: writeRelPtr32At(fromPos, toPos) stores toPos - fromPos as a
\* little-endian signed 32-bit integer in the 4 bytes at fromPos, and
\* changes neither the cursor nor any other byte.
PatchStoresDelta ==
  [][(last'.n # last.n /\ last'.op = "writeRelPtr32At") =>
        /\ readI32(writer'.buffer, last'.fromPos) = Ok(last'.toPos - last'.fromPos)
        /\ writer'.buffer[last'.fromPos + 1] = (last'.toPos - last'.fromPos) % 256
        /\ writer'.position = writer.position
        /\ writer'.capacity = writer.capacity
        /\ \A i \in 1..writer.capacity :
              (i - 1) \notin last'.fromPos..(last'.fromPos + 3) =>
                 writer'.buffer[i] = writer.buffer[i]]_vars

\* C16 happens: a negative delta was patched into a slot that has written
\* bytes before and after it.
PatchStoresDeltaWitness ==
  /\ last.op = "writeRelPtr32At"
  /\ last.toPos < last.fromPos
  /\ writer.position > last.fromPos + 4
  /\ readI32(writer.buffer, last.fromPos) = Ok(last.toPos - last.fromPos)

\* cap is base doubled some number of times.
RECURSIVE isDoubled(_, _)
isDoubled(cap, base) ==
  cap = base \/ (cap > base /\ cap % 2 = 0 /\ isDoubled(cap \div 2, base))

\* C17: growth.  The capacity is always the initial capacity times a power
\* of two and holds the cursor, and a call that grows the buffer keeps
\* every byte written before it.
GrowthDoubles ==
  [][/\ isDoubled(writer'.capacity, InitialCapacity)
     /\ Len(writer'.buffer) = writer'.capacity
     /\ writer'.position <= writer'.capacity
     /\ writer'.capacity > writer.capacity =>
          \A i \in 1..writer.position : writer'.buffer[i] = writer.buffer[i]]_vars

\* C17 happens: the buffer has grown twice and its first byte, written
\* before the growths, is still there.
GrowthDoublesWitness ==
  /\ writer.capacity = 4 * InitialCapacity
  /\ writer.buffer[1] = 255
  /\ writer.position > 2 * InitialCapacity

\* C20: dependencies first.  After an encode that returned, every relative
\* pointer the codecs stored during it leads to a lower position inside the
\* buffer, and the value encode returned ends where the buffer ends.
PointersLeadBack ==
  (last.op = "encode" /\ ~last.threw) =>
     /\ \A p \in writer.ptrs :
          p[1] >= last.fromPos => (p[2] >= 0 /\ p[2] < p[1])
     /\ last.pos + codec.size = writer.position

\* C18: lazy memoises.  lazy() itself does not invoke the supplier; over
\* any sequence of size, align, access, decode, _archive, _resolve and
\* encode on the wrapper the supplier is invoked at most once, and every
\* member returns what the supplied codec's member returns.
LazyMemoizes ==
  [][/\ last.n = 0 => (lazy.calls = 0 /\ lazy.cached = <<>>)
     /\ lazy'.calls <= 1
     /\ lazy'.cached \in {<<>>, <<codec>>}
     /\ last'.n # last.n =>
          CASE lazy'.op = "size" -> lazy'.out = codec.size
            [] lazy'.op = "align" -> lazy'.out = codec.align
            [] lazy'.op = "_archive" ->
                 [w |-> writer', r |-> lazy'.out] = archive(codec, writer, value)
            [] lazy'.op = "_resolve" ->
                 [w |-> writer', pos |-> lazy'.out]
                   = resolve(codec, writer, value, lazy.out)
            [] lazy'.op = "encode" ->
                 [w |-> writer', pos |-> lazy'.out] = codecEncode(codec, writer, value)
            [] lazy'.op = "decode" ->
                 lazy'.out = decode(codec, bytes, getRootPosition(bytes, codec.size))
            [] lazy'.op = "access" ->
                 lazy'.out = access(codec, bytes, getRootPosition(bytes, codec.size))
            [] OTHER -> TRUE]_vars

\* C18 happens: three members of the wrapper were used, the last one
\* decode, and the supplier was invoked once.
LazyMemoizesWitness ==
  /\ last.n = 3
  /\ lazy.op = "decode"
  /\ lazy.out = Ok(value)
  /\ lazy.calls = 1
  /\ lazy.cached = <<codec>>

\* C19: the length field of an out-of-line string.  For every UTF-8 length
\* above 8, the first byte of the field written has 10 as its top two
\* bits, and the length the decoder unpacks from the field is the length
\* that was packed.
LengthFieldRoundTrip ==
  (packed.len > 8 /\ packed.length # <<>>) =>
     /\ packed.field[1] \div 64 = 2
     /\ packed.length[1] = packed.len

\* The children of the inner node at pos, as the node's pointers give them:
\* the lesser_nodes slots that hold a pointer, then greater_node.
childrenOf(buf, L, E, pos) ==
  LET lesserPtr(j) == pos + L.lesserNodesOffset + 4 * (j - 1)
      greaterPtr == pos + L.greaterNodeOffset
      lesser == SelectSeq([j \in 1..E |-> lesserPtr(j)],
                          LAMBDA ptr : readI32(buf, ptr).v # 0)
  IN [j \in 1..Len(lesser) |-> lesser[j] + readI32(buf, lesser[j]).v]
     \o <<greaterPtr + readI32(buf, greaterPtr).v>>

\* Key slot j (from 0) of the node at pos, for 32-bit keys.
keySlot(buf, L, pos, j) == readU32(buf, pos + L.keysOffset + j * L.keyStride).v

\* The keys held in the subtree of the node at pos: the len entries of a
\* leaf; the separators of an inner node and the keys of its children.
RECURSIVE subtreeKeys(_, _, _, _)
subtreeKeys(buf, L, E, pos) ==
  LET children == childrenOf(buf, L, E, pos)
  IN
  IF readU8(buf, pos).v = NODE_KIND_LEAF
  THEN {keySlot(buf, L, pos, j) : j \in 0..(readU32(buf, pos + L.leafLenOffset).v - 1)}
  ELSE {keySlot(buf, L, pos, j) : j \in 0..(Len(children) - 2)}
       \cup UNION {subtreeKeys(buf, L, E, children[j]) : j \in 1..Len(children)}

\* The inner nodes of the subtree of the node at pos.
RECURSIVE innerNodes(_, _, _, _)
innerNodes(buf, L, E, pos) ==
  LET children == childrenOf(buf, L, E, pos)
  IN
  IF readU8(buf, pos).v = NODE_KIND_LEAF THEN {}
  ELSE {pos} \cup UNION {innerNodes(buf, L, E, children[j]) : j \in 1..Len(children)}

\* C21: separators partition.  In every inner node of an encoded B-tree map
\* of more than E entries, separator j is greater than every key in the
\* subtree of child j and less than every key in the subtree of child
\* j + 1, and a node of c children holds c - 1 separators (its other key
\* slots are the zero filling).
SeparatorsPartition ==
  (pc = "encoded" /\ codec.k = "btreeMap" /\ codec.a[1] = u32 /\ Len(value) > codec.n) =>
     LET L == nodeLayout(codec.a[1], codec.a[2], codec.n)
         root == rootPos + readI32(bytes, rootPos).v
     IN
     /\ innerNodes(bytes, L, codec.n, root) # {}
     /\ \A node \in innerNodes(bytes, L, codec.n, root) :
          LET children == childrenOf(bytes, L, codec.n, node)
          IN
          /\ \A j \in 1..(Len(children) - 1) :
               /\ \A k \in subtreeKeys(bytes, L, codec.n, children[j]) :
                    k < keySlot(bytes, L, node, j - 1)
               /\ \A k \in subtreeKeys(bytes, L, codec.n, children[j + 1]) :
                    keySlot(bytes, L, node, j - 1) < k
          /\ \A j \in (Len(children) - 1)..(codec.n - 1) :
               keySlot(bytes, L, node, j) = 0

\* -------------------------------------------------------- buildSwissTable
MaxHashes == 3

\* bucketMask: the next power of 2 minus 1
bucketMask(probeCapacity) ==
  LET RECURSIVE double(_)
      \* while (mask < probeCapacity) mask *= 2
      double(mask) == IF mask < probeCapacity THEN double(mask * 2) ELSE mask
  IN IF probeCapacity = 0 THEN 0 ELSE double(1) - 1

\* new ProbeSeq(hash, capacity)
ProbeSeq(hash, capacity) == [pos |-> hashMod(hash, capacity, 8, 0), stride |-> 0]

\* A moveNext that leaves the probe where it is.
moveNextStaying(probeSeq, mask) == [probeSeq EXCEPT !.stride = 0]

\* ProbeSeq.moveNext(mask); pos &= mask keeps the bits below the power of 2.
moveNext(probeSeq, mask) ==
  [pos |-> (probeSeq.pos + probeSeq.stride + MAX_GROUP_WIDTH) % (mask + 1),
   stride |-> probeSeq.stride + MAX_GROUP_WIDTH]

\* findEmptySlot: the first idx = (startIndex + i) % probeCapacity, i < 16,
\* whose control byte is 0xff; -1 stands for null.
findEmptySlot(controlBytes, startIndex, probeCapacity) ==
  LET idx(i) == (startIndex + i) % probeCapacity
      empties == {i \in 0..(MAX_GROUP_WIDTH - 1) : controlBytes[idx(i) + 1] = 255}
  IN IF empties = {} THEN -1
     ELSE idx(CHOOSE i \in empties : \A j \in empties : i <= j)

\* buildSwissTable up to its insertion loop: the capacities, the mask, the
\* control bytes filled with 0xff, the zeroed bucket indices.  slots keeps
\* the emptySlot found for each item so far.
startTable(hashes) ==
  LET capacity == capacityFromLen(Len(hashes))
      probeCapacity == probeCap(capacity)
  IN [hashes |-> hashes, capacity |-> capacity, probeCapacity |-> probeCapacity,
      mask |-> bucketMask(probeCapacity),
      controlBytes |-> Repeat(255, controlCount(probeCapacity)),
      bucketIndices |-> Repeat(0, capacity),
      itemIndex |-> 0, probeSeq |-> [pos |-> 0, stride |-> 0], slots |-> <<>>,
      pc |-> IF Len(hashes) = 0 THEN "returned" ELSE "for"]

\* 64-bit hashes: the value low + 256 * mid + 2^57 * top, so h2 is top.
hashOf(low, mid, top) == <<low, mid, 0, 0, 0, 0, 0, 2 * top>>

SwissHashes == {hashOf(0, 0, 1), hashOf(5, 0, 2), hashOf(16, 0, 3), hashOf(40, 1, 127)}

\* The sequences over S of length at most n.
RECURSIVE seqsUpTo(_, _)
seqsUpTo(S, n) ==
  IF n = 0 THEN {<<>>}
  ELSE LET shorter == seqsUpTo(S, n - 1)
       IN shorter \cup {Append(q, x) : q \in {r \in shorter : Len(r) = n - 1}, x \in S}

\* Short lists of every shape, and lists long enough for a second and a
\* third group of 16 slots, all items probing from the same slot.
SwissInputs ==
  seqsUpTo(SwissHashes, MaxHashes)
  \cup {Repeat(h, n) : h \in {hashOf(0, 0, 1), hashOf(40, 1, 127)}, n \in {17, 30}}

InitSwiss ==
  /\ InitCaller({<<unit, 0>>}, {0})
  /\ \E hashes \in SwissInputs : table = startTable(hashes)
  /\ finished = <<>>
  /\ growth = <<>>

\* for (itemIndex < hashes.length): const probeSeq = new ProbeSeq(hash, probeCapacity)
NewProbeSeq ==
  /\ table.pc = "for"
  /\ table.itemIndex < Len(table.hashes)
  /\ table' = [table EXCEPT !.probeSeq = ProbeSeq(table.hashes[table.itemIndex + 1],
                                                   table.probeCapacity),
                            !.pc = "while"]
  /\ UNCHANGED <<codec, value, pc, bytes, rootPos, decoded, accessed, views, returned,
               writer, last, lazy, packed, finished, growth>>

\* if (emptySlot !== null) { ...; break }: the control byte, its mirror,
\* the item's index (a store past the end of the Uint32Array is dropped).
InsertItem ==
  LET emptySlot == findEmptySlot(table.controlBytes, table.probeSeq.pos, table.probeCapacity)
      h2Hash == h2(table.hashes[table.itemIndex + 1])
      mirrored ==
        IF emptySlot < MAX_GROUP_WIDTH - 1
        THEN [table.controlBytes EXCEPT ![emptySlot + 1] = h2Hash,
                                        ![table.probeCapacity + emptySlot + 1] = h2Hash]
        ELSE [table.controlBytes EXCEPT ![emptySlot + 1] = h2Hash]
  IN
  /\ table.pc = "while"
  /\ emptySlot # -1
  /\ table' = [table EXCEPT !.controlBytes = mirrored,
                            !.bucketIndices =
                               IF emptySlot < table.capacity
                               THEN [@ EXCEPT ![emptySlot + 1] = table.itemIndex]
                               ELSE @,
                            !.slots = Append(@, emptySlot),
                            !.itemIndex = @ + 1,
                            !.pc = "for"]
  /\ UNCHANGED <<codec, value, pc, bytes, rootPos, decoded, accessed, views, returned,
               writer, last, lazy, packed, finished, growth>>

\* probeSeq.moveNext(mask) when the window has no empty control byte.
MoveNext ==
  /\ table.pc = "while"
  /\ findEmptySlot(table.controlBytes, table.probeSeq.pos, table.probeCapacity) = -1
  /\ table' = [table EXCEPT !.probeSeq = moveNext(table.probeSeq, table.mask)]
  /\ UNCHANGED <<codec, value, pc, bytes, rootPos, decoded, accessed, views, returned,
               writer, last, lazy, packed, finished, growth>>

\* return { controlBytes, bucketIndices, capacity, probeCapacity }
ReturnTable ==
  /\ table.pc = "for"
  /\ table.itemIndex >= Len(table.hashes)
  /\ table' = [table EXCEPT !.pc = "returned"]
  /\ UNCHANGED <<codec, value, pc, bytes, rootPos, decoded, accessed, views, returned,
               writer, last, lazy, packed, finished, growth>>

NextSwiss == NewProbeSeq \/ InsertItem \/ MoveNext \/ ReturnTable

SpecSwiss == InitSwiss /\ [][NextSwiss]_vars

\* C22: insertion probes as specified.  The start slot of each item is
\* hash % capacity; on a collision the probe advances by a stride that grows
\* by 16 each time, masked by nextPow2(probeCapacity) - 1; and the slot an
\* item is inserted in is the first one of the 16-slot window at the probe
\* position whose control byte is the empty sentinel 0xFF.
ProbesAsSpecified ==
  [][LET hash == table.hashes[table.itemIndex + 1]
         pos == table.probeSeq.pos
         window(i) == (pos + i) % table.probeCapacity
         isNextPow2(p) ==
           /\ \E k \in 0..16 : p = 2^k
           /\ p >= table.probeCapacity
           /\ p = 1 \/ p \div 2 < table.probeCapacity
     IN
     /\ (table.pc = "for" /\ table'.pc = "while") =>
          table'.probeSeq.pos = hashMod(hash, table.capacity, 8, 0)
     /\ (table.pc = "while" /\ table'.pc = "while") =>
          /\ table'.probeSeq.stride = table.probeSeq.stride + 16
          /\ \E p \in 1..64 :
               /\ isNextPow2(p)
               /\ table'.probeSeq.pos = (pos + table'.probeSeq.stride) % p
     /\ (table.pc = "while" /\ table'.pc = "for") =>
          \E i \in 0..15 :
             /\ table'.slots[Len(table'.slots)] = window(i)
             /\ table.controlBytes[window(i) + 1] = 255
             /\ \A j \in 0..(i - 1) : table.controlBytes[window(j) + 1] # 255]_vars

\* C23: the mirrored control bytes.  In every encoded hash map that is not
\* empty the control bytes are probeCapacity + 15 bytes, the struct
\* following them at the next multiple of 4, and the last 15 of them repeat
\* the first 15: controlBytes[probeCapacity + i] = controlBytes[i] for i
\* in 0..14.
ControlBytesMirrored ==
  (pc = "encoded" /\ codec.k = "hashMap" /\ Len(value) > 0) =>
     LET controlBytesPos == rootPos + readI32(bytes, rootPos).v
         probeCapacity == probeCap(readU32(bytes, rootPos + 8).v)
         controlByte(i) == bytes[controlBytesPos + i + 1]
     IN
     /\ rootPos = alignOffset(controlBytesPos + probeCapacity + 15, 4)
     /\ \A i \in 0..14 : controlByte(probeCapacity + i) = controlByte(i)

\* ------------------------------------------------- the inner value of a box
\* box._archive and weak._archive around the caller's codec as their inner
\* codec: inner._archive, writer.align(inner.align), inner._resolve, and
\* the target writer.pos - inner.size.  fromPos is the cursor _resolve
\* started at, pos the position it returned, toPos the target.
ArchiveInner ==
  LET resolved(w1, r) ==
        /\ writer' = [r.w EXCEPT !.thrown = FALSE]
        /\ last' = Did("inner", r.w.thrown, w1.position, r.w.position - codec.size, r.pos,
                       last.n + 1)
      aligned1(a, w1) == resolved(w1, IF a.w.thrown THEN RR(a.w, 0)
                                      ELSE resolve(codec, w1, value, a.r))
      archived(a) == aligned1(a, align(a.w, codec.align))
  IN
  /\ last.n < MaxCalls
  /\ archived(archive(codec, writer, value))
  /\ UNCHANGED <<codec, value, pc, bytes, rootPos, decoded, accessed, views, returned,
               lazy, packed, table, finished, growth>>

NextInner == WriteU8 \/ ArchiveInner

InitInner == InitOver(Universe)

SpecInner == InitInner /\ [][NextInner]_vars

\* C24: _resolve fills exactly codec.size bytes.  A _resolve that starts at
\* a position p aligned to codec.align returns p and leaves the cursor at
\* p + codec.size, so that the target writer.pos - inner.size of box and
\* weak is the position of the inner value.
ResolveFillsSize ==
  (last.op = "inner" /\ ~last.threw /\ last.fromPos % codec.align = 0) =>
     /\ last.pos = last.fromPos
     /\ writer.position = last.pos + codec.size
     /\ last.toPos = last.pos

\* ------------------------------------------------------- finish and reset
\* reset(): the cursor returns to 0 and the buffer keeps its bytes.  The
\* slots handed out before the reset are forgotten with it.
reset(w) == [w EXCEPT !.position = 0, !.slots = {}, !.ptrs = {}]

\* The Uint8Array that finish() returned: a view of `length` bytes over the
\* ArrayBuffer the writer had, whose capacity identifies it (a buffer only
\* grows).  seen is what the view held when finish() returned.
viewOver(w) == [length |-> w.position, capacity |-> w.capacity, seen |-> finish(w)]

\* What the view holds now.  It shares the writer's buffer; transfer()
\* in ensureCapacity detaches that buffer, and a view over a detached
\* buffer has length 0.
contents(view, w) ==
  IF w.capacity = view.capacity THEN SubSeq(w.buffer, 1, view.length) ELSE <<>>

Finish ==
  /\ finished' = viewOver(writer)
  /\ last' = [last EXCEPT !.op = "finish"]
  /\ UNCHANGED <<codec, value, pc, bytes, rootPos, decoded, accessed, views, returned,
               writer, lazy, packed, table, growth>>

Reset ==
  /\ writer' = reset(writer)
  /\ last' = [last EXCEPT !.op = "reset"]
  /\ UNCHANGED <<codec, value, pc, bytes, rootPos, decoded, accessed, views, returned,
               lazy, packed, table, finished, growth>>

NextReuse == NextWriter \/ Finish \/ Reset

SpecReuse == InitWriter /\ [][NextReuse]_vars

\* The bytes of encode(codec, value) on a new writer.
freshBytes == finish(codecEncode(codec, NewWriter(InitialCapacity), value).w)

\* C25: a writer that was reset is as good as a new one.  An encode that
\* directly follows reset() leaves finish() equal to the bytes the same
\* encode gives on a new writer, whatever was written before the reset.
ResetIsFresh ==
  [][(last.op = "reset" /\ last'.op = "encode" /\ ~last'.threw) =>
        finish(writer') = freshBytes]_vars

\* C26: the array finish() returned keeps its length and its contents
\* under every later operation of the writer.
FinishedIsStable ==
  finished # <<>> => contents(finished, writer) = finished.seen

\* An encode on a reset writer wrote a pointer into a slot that held other
\* bytes when finish() returned before the reset.
ResetReusedSlot ==
  /\ last.op = "encode" /\ ~last.threw /\ last.fromPos = 0
  /\ finished # <<>>
  /\ \E slot \in writer.slots :
        /\ slot + 4 <= finished.length
        /\ SubSeq(finished.seen, slot + 1, slot + 4) # SubSeq(writer.buffer, slot + 1, slot + 4)
        /\ SubSeq(finished.seen, slot + 1, slot + 4) # <<0, 0, 0, 0>>

\* ---------------------------------------------------------- weak pointers
\* Weak pointers, null and present, at the root and as the second field of
\* a struct: to values of every leaf codec and to the values [] of
\* array(u8, 0) and [null, null] of array(unit, 2), whose codecs have size 0.
\* The only value of unit is null, which weak(unit) takes as no value.
EmptyArrays == {<<array(u8, 0), <<>>>>, <<array(unit, 2), <<<<>>, <<>>>>>>}

WeakInputs ==
  UNION {{<<weak(c), v>> : v \in {<<>>} \cup {<<x>> : x \in Values(c)}} : c \in Leaves}
    \cup {<<weak(unit), <<>>>>}
    \cup UNION {{<<weak(p[1]), <<>>>>, <<weak(p[1]), <<p[2]>>>>,
                 <<struct(<<u8, weak(p[1])>>), <<200, <<p[2]>>>>>>} : p \in EmptyArrays}
    \cup {<<struct(<<u8, weak(u32)>>), <<200, <<7>>>>>>}

InitWeak == InitOver(WeakInputs)

SpecWeak == InitWeak /\ [][Next]_vars

\* C27: a present weak value is never stored as delta 0.  Whatever the
\* inner codec, the relative pointer of a weak pointer that was encoded
\* with a value is not 0, and the value is not decoded as null.
PresentWeakIsNotZero ==
  (pc = "encoded" /\ codec.k = "weak" /\ value # <<>>) =>
     /\ readI32(bytes, rootPos) # Ok(0)
     /\ decoded # <<>> => decoded[1] # Ok(<<>>)

\* C28: buildSwissTable keeps every item.  Every slot chosen for an item is
\* less than capacity, the length of bucketIndices, so the index of each
\* item is recorded in bucketIndices, and no two items have the same slot.
SlotsWithinCapacity ==
  (table # <<>> /\ table.pc = "returned") =>
     /\ \A i \in 1..Len(table.slots) :
           /\ table.slots[i] < table.capacity
           /\ table.bucketIndices[table.slots[i] + 1] = i - 1
     /\ \A i, j \in 1..Len(table.slots) : table.slots[i] = table.slots[j] => i = j

\* buildSwissTable runs to its end once called: a step that can be taken is
\* taken.
SpecSwissLive == InitSwiss /\ [][NextSwiss]_vars /\ WF_vars(NextSwiss)

\* C29: the insertion loop of buildSwissTable terminates.  For each item
\* the probe reaches, after finitely many moveNext steps, a window with an
\* empty control byte and the item is inserted; buildSwissTable returns.
InsertionTerminates ==
  /\ (table.pc = "while") ~> (table.pc = "for")
  /\ <>(table.pc = "returned")

\* C29 happens: the table was returned with an item whose slot is outside
\* the first window of its probe, which is reached by moveNext only.
InsertedAfterMoveNext ==
  /\ table.pc = "returned"
  /\ \E i \in 1..Len(table.slots) :
        (table.slots[i] - hashMod(table.hashes[i], table.probeCapacity, 8, 0))
           % table.probeCapacity >= MAX_GROUP_WIDTH

\* ------------------------------------------------------ growing the buffer
\* The two RkyvWriter classes, step by step.  The first takes its initial
\* capacity as given; the second takes options.initialCapacity || 1024.
\* growth is the writer in a write: its capacity, its cursor, the size
\* required by the write in progress, and pc, "idle" between writes and
\* "while" inside the doubling loop of ensureCapacity.
DefaultCapacity == 1024

MaxCapacity == 3

MaxWritten == 12

WriterClasses == {"first", "second"}

newGrowth(class, initialCapacity) ==
  [class |-> class,
   capacity |-> IF class = "second" /\ initialCapacity = 0 THEN DefaultCapacity
                ELSE initialCapacity,
   position |-> 0, required |-> 0, pc |-> "idle"]

InitGrowth ==
  /\ InitCaller({<<unit, <<>>>>}, {0})
  /\ table = <<>>
  /\ finished = <<>>
  /\ \E class \in WriterClasses, initialCapacity \in 0..MaxCapacity :
        growth = newGrowth(class, initialCapacity)

\* A write of additionalBytes bytes calls ensureCapacity: when the bytes
\* fit they are stored and the cursor moves, otherwise the loop is entered.
StartWrite ==
  /\ growth.pc = "idle"
  /\ \E additionalBytes \in {1, 2, 4, 8} :
        LET required == growth.position + additionalBytes
        IN /\ required <= MaxWritten
           /\ growth' = IF required > growth.capacity
                        THEN [growth EXCEPT !.required = required, !.pc = "while"]
                        ELSE [growth EXCEPT !.required = required, !.position = required]
  /\ UNCHANGED <<codec, value, pc, bytes, rootPos, decoded, accessed, views, returned,
               writer, last, lazy, packed, table, finished>>

\* while (this.capacity < required) this.capacity *= 2.  Doubling the
\* capacity 0 leaves it 0: the loop runs on and the state never changes.
Double ==
  /\ growth.pc = "while"
  /\ growth.capacity < growth.required
  /\ growth' = [growth EXCEPT !.capacity = growth.capacity * 2]
  /\ UNCHANGED <<codec, value, pc, bytes, rootPos, decoded, accessed, views, returned,
               writer, last, lazy, packed, table, finished>>

\* The loop is left: the buffer is replaced by one of the new capacity and
\* the write stores its bytes.
Grown ==
  /\ growth.pc = "while"
  /\ growth.capacity >= growth.required
  /\ growth' = [growth EXCEPT !.position = growth.required, !.pc = "idle"]
  /\ UNCHANGED <<codec, value, pc, bytes, rootPos, decoded, accessed, views, returned,
               writer, last, lazy, packed, table, finished>>

NextGrowth == StartWrite \/ Double \/ Grown

\* A write that was called runs on: the loop takes its next step.
SpecGrowth == InitGrowth /\ [][NextGrowth]_vars /\ WF_vars(Double \/ Grown)

\* C30: every write terminates.  For every initial capacity from 0 on that
\* the constructor accepts and every write size, the doubling loop of
\* ensureCapacity is left, and the write ends with capacity >= position.
EnsureCapacityTerminates ==
  (growth.pc = "while") ~> (growth.pc = "idle" /\ growth.capacity >= growth.position)

====
